---- MODULE Spec2Model ----
(***************************************************************************)
(* Model of the Ebay-WooCommerce-Shim: the sqlite cache (bin/shim/db.py),  *)
(* the source sync (bin/shim/ebay.py) and the destination sync             *)
(* (bin/shim/woo.py).                                                      *)
(*                                                                         *)
(* The specifications share the variables:                                 *)
(*   Spec      - the cache and the destination operations, each operation  *)
(*               one atomic step of a serial caller;                       *)
(*   SpecMeta  - the metadata table;                                       *)
(*   SpecEbay  - one EbayShim object running try_command, one marketplace  *)
(*               request per step;                                         *)
(*   SpecQueue - a ProductUploadQueue (bin/shim/queue.py): the thread that *)
(*               runs start() and its worker threads; SpecQueueFair adds   *)
(*               fair scheduling of the threads;                           *)
(*   SpecDispatch - try_command of both shims for a serial caller;         *)
(*   SpecServer   - Server.start (bin/server.py), phase after phase;       *)
(*   SpecMigrate  - Database.__init__ on one cache file, startup after     *)
(*                  startup;                                               *)
(*   SpecPage     - get_seller_list against a marketplace that serves a    *)
(*                  paginated listing;                                     *)
(*   SpecShim     - EbayShim.set_date_range;                               *)
(*   SpecFilter   - EbayShim.set_range_filter;                             *)
(*   SpecImages   - WooCommerceShim.upload_product_images;                 *)
(*   SpecCategory - WooCommerceShim.get_mapped_category_id;                *)
(*   SpecChunks   - WooCommerceShim.delete_all_products_in_range;          *)
(*   SpecRace     - two processes that run get_item_metadata on one cache; *)
(*   SpecDownload - an EbayDownloadQueue and its worker threads;           *)
(*   SpecPull     - try_command('get_seller_list') against any response;   *)
(*                  SpecPullFair adds that a running request ends.         *)
(***************************************************************************)
EXTENDS Integers, Sequences, FiniteSets, TLC

(***************************************************************************)
(* Bounds of the model.                                                    *)
(***************************************************************************)
\* destination post ids / media ids are 1..MaxPostId
MaxPostId == 2
\* calendar days are 1..MaxDay
MaxDay == 2
\* EbayShim.rate_limit (1000 in the source), scaled down
RateLimit == 2
\* longest in-memory list of pending ids (get_seller_list appends without bound)
MaxPending == 3
\* most marketplace requests one try_command call sends (a timed out request
\* is not counted in requests_today, so retries are not bounded by the budget)
MaxRequests == 3
\* most rows of item_metadata
MaxMetaRows == 3
\* most worker threads of a queue (BaseQueue.workers; MAX_WORKERS is 1)
MaxWorkers == 2
\* most attempts of the command that one WooCommerceShim.try_command call is
\* followed through
MaxAttempts == 3
\* most Database constructions on one cache file
MaxStartups == 4

\* the item ids of the marketplace
ItemIds == {1, 2}
PostIds == 1..MaxPostId
Days == 1..MaxDay

\* SQL NULL / Python None for a nullable integer column: a nullable integer
\* is <<>> (NULL) or <<n>>
NULL == <<>>
Val(n) == <<n>>

\* ListingStatus values of the marketplace
Statuses == {"Active", "Completed"}
\* Title stands for the descriptive columns (title, sku, category, condition)
Titles == {"t1", "t2"}
\* the days on which a listing ends
EndTimes == {1, 2}
\* TotalNumberOfEntries / TotalNumberOfPages a GetSellerList response reports
ReportedTotals == {0, 1, 2}
\* Quantity and SellingStatus.QuantitySold of a listing
Quantities == {1}
QuantitiesSold == {0, 1}

VARIABLES
    items,          \* table items: a set of rows
    item_metadata,  \* table item_metadata: a set of rows
    ebay_internals, \* table ebay_internals: requests_today, got_item_ids, got_seller_list_date
    today,          \* datetime.date.today()
    got_item_ids,   \* EbayShim.got_item_ids (in memory)
    pagination,     \* EbayShim.pagination_* and seller_filter_dict['Pagination']
    pc,             \* position of the EbayShim caller inside try_command
    loop_index,     \* index of the list iterator of get_item_metadata's for loop
                    \* (0 when no loop is running)
    trace,          \* observation of the running / last source command
    last,           \* observation of the last cache / destination operation
    item_ids,       \* the ids a ProductUploadQueue was constructed with
    queue,          \* BaseQueue.queue: the entries of the FIFO queue.Queue
    unfinished_tasks, \* queue.Queue.unfinished_tasks
    workers,        \* BaseQueue.workers
    threads,        \* BaseQueue.threads and the position of each worker thread
    producer,       \* position of the thread that runs BaseQueue.start
    processed,      \* per item id, how many entries were acknowledged (task_done)
    woo,            \* the running / last WooCommerceShim.try_command call
    server,         \* the Server object and the position of Server.start
    schema,         \* the cache file's schema: PRAGMA user_version, the post_id
                    \* columns, the table ebay_internals and the keys it holds
    startup,        \* the running / last Database.__init__ on the cache file
    remote,         \* the listings the marketplace holds and the page size asked
    date_range,     \* EbayShim.date_range
    category_mapping, \* WooCommerceShim.category_mapping
    seller_filter_dict, \* EbayShim.seller_filter_dict without its 'Pagination' entry
    runs            \* the EbayShim objects that work side by side on the cache, and
                    \* the position of the process or thread of each

cacheVars == <<items, item_metadata>>
ebayVars == <<ebay_internals, got_item_ids, pagination, pc, loop_index, trace>>
queueVars == <<item_ids, queue, unfinished_tasks, workers, threads, producer, processed>>

\* the variables the cache and source-sync specifications leave alone
migrateVars == <<schema, startup>>
\* the marketplace and the attributes of the shim objects that only the
\* specifications SpecPage and SpecShim change
shimVars == <<remote, date_range, category_mapping, seller_filter_dict, runs>>
otherVars == <<queueVars, woo, server, migrateVars, shimVars>>

vars == <<cacheVars, ebayVars, today, last, otherVars>>

(***************************************************************************)
(* Python list helpers                                                     *)
(***************************************************************************)
\* list.remove(x): deletes the first element equal to x
RECURSIVE ListRemove(_, _)
ListRemove(s, x) ==
    IF s = <<>> THEN <<>>
    ELSE IF Head(s) = x THEN Tail(s)
    ELSE <<Head(s)>> \o ListRemove(Tail(s), x)

SeqToSet(s) == {s[k] : k \in 1..Len(s)}

\* the ascending sequence of a finite set of integers
RECURSIVE SortedSeq(_)
SortedSeq(S) ==
    IF S = {} THEN <<>>
    ELSE LET m == CHOOSE x \in S : \A y \in S : x <= y
         IN <<m>> \o SortedSeq(S \ {m})

(***************************************************************************)
(* bin/shim/db.py                                                          *)
(***************************************************************************)
\* A marketplace item as db_store_item_from_ebay reads it
ItemInputs ==
    [ItemID : ItemIds, ListingStatus : Statuses, Quantity : Quantities,
     QuantitySold : QuantitiesSold, Title : Titles, EndTime : EndTimes]

\* the row the INSERT lists: post_id is not among the columns, so the new
\* row holds the column default NULL
ItemRow(item) ==
    [itemid |-> item.ItemID,
     active |-> item.ListingStatus,
     available_quantity |-> item.Quantity - item.QuantitySold,
     title |-> item.Title,
     end_date |-> item.EndTime,
     post_id |-> NULL]

\* INSERT OR REPLACE INTO items: rows that conflict on the primary key are
\* deleted, then the new row is inserted
InsertWithoutReplace(its, item) == its \cup {ItemRow(item)}
db_store_item_from_ebay(its, item) ==
    {r \in its : r.itemid # item.ItemID} \cup {ItemRow(item)}

\* the source-supplied columns of a row
SourceFields(r) ==
    [itemid |-> r.itemid, active |-> r.active,
     available_quantity |-> r.available_quantity,
     title |-> r.title, end_date |-> r.end_date]

RowsOf(its, i) == {r \in its : r.itemid = i}

\* __store_key_value: SELECT the identical triple, INSERT when none is found;
\* id is the AUTOINCREMENT key (rows are never deleted)
MetaTriples(md, i, k, v) ==
    {m \in md : m.itemid = i /\ m.key = k /\ m.value = v}
InsertAlways(md, i, k, v) ==
    md \cup {[id |-> Cardinality(md) + 1, itemid |-> i, key |-> k,
              value |-> v, post_id |-> NULL]}
store_key_value(md, i, k, v) ==
    IF Cardinality(MetaTriples(md, i, k, v)) = 0
    THEN md \cup {[id |-> Cardinality(md) + 1, itemid |-> i, key |-> k,
                   value |-> v, post_id |-> NULL]}
    ELSE md

\* a TEXT value is a sequence of words, the words of a multi-valued specific
\* separated by ', '; ', '.join(list) concatenates the strings of the list
RECURSIVE Join(_)
Join(list) ==
    IF list = <<>> THEN <<>> ELSE Head(list) \o Join(Tail(list))

\* the items whose metadata is stored
MetaItemIds == {1, 2}

\* item['PictureDetails']['PictureURL']: absent, one str, a list of str, or
\* a value of another type
Urls == {<<"u1">>, <<"u2">>}
PictureInputs ==
    {[t |-> "absent", v |-> <<>>], [t |-> "other", v |-> <<>>]}
        \cup [t : {"str"}, v : Urls]
        \cup [t : {"list"}, v : {<< <<"u1">>, <<"u2">> >>, << <<"u1">>, <<"u1">> >>}]

\* one NameValueList entry: Value is a str or a list of str
SpecificNames == {"Brand"}
SpecificValues ==
    [t : {"str"}, v : {<<"x">>, <<"x", "y">>}]
        \cup [t : {"list"}, v : {<< <<"x">> >>, << <<"x">>, <<"y">> >>}]
NameValues == [Name : SpecificNames, Value : SpecificValues]
NameValueLists ==
    {<<nv>> : nv \in NameValues}
        \cup {<<[Name |-> "Brand", Value |-> [t |-> "str", v |-> <<"x">>]],
                [Name |-> "Brand", Value |-> [t |-> "list", v |-> << <<"x">>, <<"y">> >>]]>>}

\* item['ItemSpecifics']['NameValueList']: absent, one dict, a list of dicts,
\* or a value of another type
SpecificsInputs ==
    {[t |-> "absent", v |-> <<>>], [t |-> "other", v |-> <<>>]}
        \cup [t : {"dict"}, v : {<<nv>> : nv \in NameValues}]
        \cup [t : {"list"}, v : NameValueLists]

\* the (key, value) pairs the PictureDetails part passes to __store_key_value
PictureCalls(pics) ==
    IF pics.t = "list"
    THEN [k \in 1..Len(pics.v) |-> <<"picture_url", pics.v[k]>>]
    ELSE IF pics.t = "str" THEN << <<"picture_url", pics.v>> >>
    ELSE <<>>

\* the value the list branch stores for one detail
DetailValue(nv) ==
    IF nv.Value.t = "list" THEN Join(nv.Value.v) ELSE nv.Value.v

\* the dict branch reads `detail`, which is not bound there, when Value is a
\* list: UnboundLocalError, a NameError
SpecificsRaises(specs) ==
    specs.t = "dict" /\ specs.v[1].Value.t = "list"

\* the (key, value) pairs the ItemSpecifics part passes to __store_key_value
SpecificsCalls(specs) ==
    IF specs.t = "list"
    THEN [k \in 1..Len(specs.v) |-> <<specs.v[k].Name, DetailValue(specs.v[k])>>]
    ELSE IF specs.t = "dict" /\ ~SpecificsRaises(specs)
    THEN << <<specs.v[1].Name, specs.v[1].Value.v>> >>
    ELSE <<>>

RECURSIVE StoreAll(_, _, _)
StoreAll(md, i, kvs) ==
    IF kvs = <<>> THEN md
    ELSE StoreAll(store_key_value(md, i, Head(kvs)[1], Head(kvs)[2]), i, Tail(kvs))

\* db_store_item_metadata_from_ebay(item): the table after it, the pairs it
\* stored and the exception it raises
db_store_item_metadata_from_ebay(md, i, pics, specs) ==
    LET calls == PictureCalls(pics) \o SpecificsCalls(specs)
    IN  [metadata |-> StoreAll(md, i, calls),
         calls |-> calls,
         raised |-> IF SpecificsRaises(specs) THEN "NameError" ELSE "none"]

\* db_get_active_item_ids: WHERE active = 'Active' AND post_id IS NULL,
\* ids in rowid order, falsy ids dropped
ActiveIgnoringPostId(its) ==
    SortedSeq({r.itemid : r \in {x \in its : x.active = "Active"}})
db_get_active_item_ids(its) ==
    SortedSeq({r.itemid : r \in
        {x \in its : x.active = "Active" /\ x.post_id = NULL /\ x.itemid # 0}})

\* end_date <= date('now'): end_date is stored as 'YYYY-MM-DD HH:MM:SS' and
\* date('now') is 'YYYY-MM-DD', compared as text, so the comparison is true
\* exactly when the day of end_date is before today
EndDatePassed(r, day) == r.end_date < day

\* db_get_inactive_uploaded_item_ids:
\*   WHERE post_id is not NULL AND active != 'Active' OR end_date <= date('now')
\* AND binds tighter than OR
db_get_inactive_uploaded_item_ids(its, day) ==
    SortedSeq({r.itemid : r \in
        {x \in its : \/ (x.post_id # NULL /\ x.active # "Active")
                     \/ EndDatePassed(x, day)}})

\* db_get_product_data: SELECT ... WHERE available_quantity > 0 AND itemid = ...
\* the rows the cursor holds; dict(fetchone()) raises TypeError when there is none
db_get_product_data(its, i) ==
    {r \in its : r.available_quantity > 0 /\ r.itemid = i}

\* db_woo_get_post_id: SELECT post_id FROM items WHERE itemid = ...
PostIdOfAnyRow(its, i) == {r.post_id : r \in its}
db_woo_get_post_id(its, i) == {r.post_id : r \in RowsOf(its, i)}

\* dict(self.__cursor.fetchone()), in db_get_product_data and in __fetchone:
\* fetchone() gives None when the cursor holds no row and dict(None) raises
fetchone(rows) ==
    IF rows = {} THEN "TypeError" ELSE "none"

\* __mark_data_as_uploaded('product', ...): UPDATE items SET post_id WHERE itemid
db_product_uploaded(its, p, i) ==
    {IF r.itemid = i THEN [r EXCEPT !.post_id = Val(p)] ELSE r : r \in its}

\* __mark_data_as_uploaded('metadata', ...): UPDATE item_metadata SET post_id
\* WHERE itemid: every metadata row of the item
db_metadata_uploaded(md, p, i) ==
    {IF m.itemid = i THEN [m EXCEPT !.post_id = Val(p)] ELSE m : m \in md}

(***************************************************************************)
(* bin/shim/woo.py (category_mapping is None: no mapping file was loaded)  *)
(***************************************************************************)
\* what self.api.post('products', ...) gives: a product with an id, a
\* product_invalid_sku rejection with or without data.resource_id (id 0: no
\* resource id), another rejection, or a timeout raised by the client
WooCreateResponses ==
    [kind : {"created", "product_invalid_sku"}, id : PostIds]
        \cup {[kind |-> "product_invalid_sku", id |-> 0],
              [kind |-> "error", id |-> 0],
              [kind |-> "timeout", id |-> 0]}

\* what self.api.delete('products/<id>', force) gives: the deleted product
\* (no 'data' key), an error body with a 'data' key, or a timeout
WooDeleteResponses == {"product", "error_data", "timeout"}

\* does_product_exist: data.get('post_id') is not None, for the row that
\* db_get_product_data fetched
AlwaysMissing(data) == FALSE
does_product_exist(data) == \E r \in data : r.post_id # NULL

\* the branch of create_product that handles a non-product answer
RejectionIgnored(its, i, res) == its
create_product_rejected(its, i, res) ==
    IF res.kind = "product_invalid_sku" /\ res.id # 0
    THEN db_product_uploaded(its, res.id, i)
    ELSE its

\* create_product(item_id) with the answer res of the destination: the cache
\* after it, the number of destination calls and the exception it raises
create_product(its, i, res) ==
    LET data == db_get_product_data(its, i)
    IN  IF data = {}
        THEN [items |-> its, calls |-> 0, raised |-> "TypeError"]
        ELSE IF does_product_exist(data)
        THEN [items |-> its, calls |-> 0, raised |-> "none"]
        ELSE IF res.kind = "timeout"
        THEN [items |-> its, calls |-> 1, raised |-> "Timeout"]
        ELSE IF res.kind = "created"
        THEN [items |-> db_product_uploaded(its, res.id, i),
              calls |-> 1, raised |-> "none"]
        ELSE [items |-> create_product_rejected(its, i, res),
              calls |-> 1, raised |-> "none"]

\* delete_product(item_id): the cache is only read; request is what
\* self.api.delete('products/%d' % (post_id), params={'force': True}) sends
delete_product(its, i, res) ==
    LET post_ids == db_woo_get_post_id(its, i)
        request == [products |-> {p[1] : p \in post_ids}, force |-> TRUE]
    IN  IF post_ids = {}
        THEN [calls |-> 0, raised |-> "TypeError", returned |-> "nothing",
              request |-> <<>>]
        ELSE IF NULL \in post_ids
        THEN [calls |-> 0, raised |-> "none", returned |-> "None", request |-> <<>>]
        ELSE IF res = "timeout"
        THEN [calls |-> 1, raised |-> "Timeout", returned |-> "nothing",
              request |-> request]
        ELSE IF res = "product"
        \* response.get('data', dict).get('staus', 500) with no 'data' key
        \* calls dict.get on a str
        THEN [calls |-> 1, raised |-> "TypeError", returned |-> "nothing",
              request |-> request]
        ELSE [calls |-> 1, raised |-> "none", returned |-> "response",
              request |-> request]

(***************************************************************************)
(* bin/shim/db.py: table ebay_internals                                    *)
(***************************************************************************)
\* an item id held in a Python list is an int when it was read from the
\* column itemid and a str when it is item['ItemID'] of a response. Both name
\* the item in GetItem and in int(item['ItemID']); the lists hold the number.
PyInt(i) == i
PyStr(i) == i

\* db_ebay_increment_request_counter: read the counter, write it plus one
CounterNotWritten(internals) == internals
db_ebay_increment_request_counter(internals) ==
    [internals EXCEPT !.requests_today = internals.requests_today + 1]

\* db_ebay_store_got_item_ids: json.dumps keeps the order and the types
db_ebay_store_got_item_ids(internals, ids) ==
    [internals EXCEPT !.got_item_ids = ids]

\* db_ebay_get_got_item_ids: the stored list, or every active id when the
\* stored list is empty
db_ebay_get_got_item_ids(internals, its) ==
    IF internals.got_item_ids = <<>>
    THEN [k \in 1..Len(db_get_active_item_ids(its)) |->
              PyInt(db_get_active_item_ids(its)[k])]
    ELSE internals.got_item_ids

\* the test of db_ebay_got_seller_list_date that refuses the pull
RefusedOnlyInFuture(internals, day) ==
    /\ internals.got_seller_list_date # NULL
    /\ internals.got_seller_list_date[1] > day
SellerListRefused(internals, day) ==
    /\ internals.got_seller_list_date # NULL
    /\ internals.got_seller_list_date[1] >= day

\* db_ebay_got_seller_list_date: False and no write when the stored date is
\* today or later; otherwise the date becomes today, the request counter is
\* zeroed (db_ebay_zero_request_counter) and the answer is True
GuardKeepsCounter(internals, day) ==
    IF SellerListRefused(internals, day)
    THEN [passed |-> FALSE, internals |-> internals]
    ELSE [passed |-> TRUE,
          internals |-> [internals EXCEPT !.got_seller_list_date = Val(day)]]
db_ebay_got_seller_list_date(internals, day) ==
    IF SellerListRefused(internals, day)
    THEN [passed |-> FALSE, internals |-> internals]
    ELSE [passed |-> TRUE,
          internals |-> [internals EXCEPT !.got_seller_list_date = Val(day),
                                          !.requests_today = 0]]

(***************************************************************************)
(* bin/shim/ebay.py                                                        *)
(***************************************************************************)
\* the items the marketplace lists and the pages it serves
Listing(i, status) ==
    [ItemID |-> i, ListingStatus |-> status, Quantity |-> 1, QuantitySold |-> 0,
     Title |-> "t1", EndTime |-> 1]
ListingPictures == [t |-> "str", v |-> <<"u1">>]
ListingSpecifics == [t |-> "absent", v |-> <<>>]
ListingPages ==
    {<<>>,
     <<Listing(1, "Active")>>,
     <<Listing(1, "Completed")>>,
     <<Listing(1, "Active"), Listing(2, "Active")>>,
     <<Listing(2, "Active"), Listing(1, "Completed")>>}

\* a GetSellerList response; ReturnedItemCountActual is the length of Items
\* and ItemArray is absent when Items is empty
SellerListResponses ==
    [TotalNumberOfEntries : ReportedTotals, TotalNumberOfPages : ReportedTotals,
     Items : ListingPages]

\* the ItemSpecifics of a GetItem response
GetItemSpecifics ==
    {[t |-> "absent", v |-> <<>>],
     [t |-> "list", v |-> <<[Name |-> "Brand", Value |-> [t |-> "str", v |-> <<"x">>]]>>],
     [t |-> "dict", v |-> <<[Name |-> "Brand",
                             Value |-> [t |-> "list", v |-> << <<"x">>, <<"y">> >>]]>>]}

\* __update_pagination: PageNumber 0 stands for seller_filter_dict without a
\* 'Pagination' entry
update_pagination(pg) ==
    IF pg.PageNumber = 0
    THEN [pg EXCEPT !.PageNumber = 1]
    ELSE IF pg.total_pages > pg.PageNumber
         THEN IF pg.total_items > pg.received_items
              THEN [pg EXCEPT !.PageNumber = pg.PageNumber + 1]
              ELSE [pg EXCEPT !.received_items = 0, !.total_items = 0]
         ELSE [pg EXCEPT !.total_pages = 0]

\* the loop of get_seller_list over the items of one page: every item is
\* upserted; for an active item its metadata is stored and its id appended
RECURSIVE StorePage(_, _, _, _)
StorePage(its, md, got, page) ==
    IF page = <<>>
    THEN [items |-> its, metadata |-> md, got_item_ids |-> got]
    ELSE LET item == Head(page)
             its1 == db_store_item_from_ebay(its, item)
         IN  IF item.ListingStatus = "Active"
             THEN StorePage(its1,
                            db_store_item_metadata_from_ebay(
                                md, item.ItemID, ListingPictures, ListingSpecifics).metadata,
                            Append(got, PyStr(item.ItemID)),
                            Tail(page))
             ELSE StorePage(its1, md, got, Tail(page))

(***************************************************************************)
(* Initial state: a new cache file after Database.__init__ (tables         *)
(* created, migrations 1..3 applied) and EbayShim.__init__                 *)
(***************************************************************************)
NoOp == [cmd |-> "init", item |-> 0, calls |-> 0, raised |-> "none",
         kind |-> "none", id |-> 0, flag |-> FALSE, arg |-> <<>>]

NoTrace == [cmd |-> "none", start |-> <<>>, fetched |-> <<>>, limited |-> FALSE,
            retried |-> FALSE, requests |-> 0, outcome |-> "none", ran_on |-> 0]

\* no try_command call was made on the WooCommerceShim
NoCall == [pc |-> "idle", command |-> "none", data |-> 0, attempts |-> 0,
           calls |-> 0, raised |-> "none"]

\* the number of the last migration of __migrate_tables
LastMigration == 3

\* the schema of a cache file on which the migrations 1..v have run and which
\* stores the version v
SchemaAt(v) ==
    [user_version |-> v,
     items_post_id |-> v >= 1,
     item_metadata_post_id |-> v >= 1,
     ebay_internals |-> v >= 2,
     keys |-> (IF v >= 2 THEN {"requests_today", "got_item_ids"} ELSE {})
                 \cup (IF v >= 3 THEN {"got_seller_list_date"} ELSE {})]

\* no Database.__init__ has run in this process
NoStartup == [pc |-> "none", script |-> <<>>, count |-> 0, from |-> LastMigration,
              ran |-> [m \in 1..LastMigration |-> 0], raised |-> "none"]

\* a cache file that holds every migration and stores the last version
Migrated ==
    /\ schema = SchemaAt(LastMigration)
    /\ startup = NoStartup

\* no Server object was constructed
NoServer == [phase |-> "none", index |-> 0, active_item_ids |-> <<>>,
             inactive_item_ids |-> <<>>, raised |-> "none"]

\* the marketplace of the specifications that draw each response freely
NoRemote == [TotalNumberOfEntries |-> 0, EntriesPerPage |-> 0, ItemSpecifics |-> FALSE]

\* EbayShim.__init__: self.date_range = {}
NoDateRange == [from |-> <<>>, to |-> <<>>, type |-> "none"]

\* EbayShim.__init__: self.seller_filter_dict = {}; a dict is a function
\* from the keys it holds
NoFilter == [k \in {} |-> NULL]

\* the shim attributes after construction
NoShim ==
    /\ remote = NoRemote
    /\ date_range = NoDateRange
    /\ category_mapping = NULL
    /\ seller_filter_dict = NoFilter
    /\ runs = <<>>

\* no queue object was constructed
NoQueue ==
    /\ item_ids = <<>>
    /\ queue = <<>>
    /\ unfinished_tasks = 0
    /\ workers = 1
    /\ threads = <<>>
    /\ producer = [pc |-> "none", index |-> 0]
    /\ processed = [i \in ItemIds |-> 0]

Init ==
    /\ items = {}
    /\ item_metadata = {}
    /\ ebay_internals = [requests_today |-> 0, got_item_ids |-> <<>>,
                         got_seller_list_date |-> NULL]
    /\ today = 1
    /\ got_item_ids = <<>>
    /\ pagination = [total_items |-> 0, total_pages |-> 0,
                     received_items |-> 0, PageNumber |-> 0]
    /\ pc = "idle"
    /\ loop_index = 0
    /\ trace = NoTrace
    /\ last = NoOp
    /\ NoQueue
    /\ woo = NoCall
    /\ server = NoServer
    /\ Migrated
    /\ NoShim

(***************************************************************************)
(* Spec: cache and destination operations of a serial caller               *)
(***************************************************************************)
\* the clock passes midnight
NextDay ==
    /\ today < MaxDay
    /\ today' = today + 1
    /\ last' = [NoOp EXCEPT !.cmd = "next_day"]
    /\ UNCHANGED <<otherVars, cacheVars, ebayVars>>

\* db_store_item_from_ebay(item)
StoreItem ==
    \E item \in ItemInputs :
        /\ items' = db_store_item_from_ebay(items, item)
        /\ last' = [NoOp EXCEPT !.cmd = "store_item", !.item = item.ItemID,
                        !.arg = item,
                        !.flag = \E r \in items :
                                    /\ r.itemid = item.ItemID
                                    /\ SourceFields(r) # SourceFields(ItemRow(item))]
        /\ UNCHANGED <<otherVars, item_metadata, today, ebayVars>>

\* create_product(item_id)
CreateProduct ==
    \E i \in ItemIds, res \in WooCreateResponses :
        LET out == create_product(items, i, res)
        IN  /\ items' = out.items
            /\ last' = [cmd |-> "create_product", item |-> i,
                        calls |-> out.calls, raised |-> out.raised,
                        kind |-> IF out.calls = 0 THEN "none" ELSE res.kind,
                        id |-> IF out.calls = 0 THEN 0 ELSE res.id,
                        flag |-> \E r \in items : r.itemid = i /\ r.post_id # NULL,
                        arg |-> <<>>]
            /\ UNCHANGED <<otherVars, item_metadata, today, ebayVars>>

\* delete_product(item_id)
DeleteProduct ==
    \E i \in ItemIds, res \in WooDeleteResponses :
        LET out == delete_product(items, i, res)
        IN  /\ last' = [cmd |-> "delete_product", item |-> i,
                        calls |-> out.calls, raised |-> out.raised,
                        kind |-> out.returned, id |-> 0,
                        flag |-> \E r \in items : r.itemid = i /\ r.post_id # NULL,
                        arg |-> out.request]
            /\ UNCHANGED <<otherVars, cacheVars, today, ebayVars>>

\* db_get_active_item_ids(), as Server.__init__ and ProductUploadQueue call it
GetActiveItemIds ==
    /\ last' = [NoOp EXCEPT !.cmd = "db_get_active_item_ids",
                            !.arg = db_get_active_item_ids(items)]
    /\ UNCHANGED <<otherVars, cacheVars, today, ebayVars>>

\* db_get_inactive_uploaded_item_ids(), as Server.__init__ calls it
GetInactiveUploadedItemIds ==
    /\ last' = [NoOp EXCEPT !.cmd = "db_get_inactive_uploaded_item_ids",
                            !.arg = db_get_inactive_uploaded_item_ids(items, today)]
    /\ UNCHANGED <<otherVars, cacheVars, today, ebayVars>>

\* db_get_product_data(item_id), called on its own
GetProductData ==
    \E i \in ItemIds :
        /\ last' = [NoOp EXCEPT !.cmd = "db_get_product_data", !.item = i,
                                !.raised = fetchone(db_get_product_data(items, i)),
                                !.flag = RowsOf(items, i) # {}]
        /\ UNCHANGED <<otherVars, cacheVars, today, ebayVars>>

\* db_woo_get_post_id(item_id), called on its own
WooGetPostId ==
    \E i \in ItemIds :
        /\ last' = [NoOp EXCEPT !.cmd = "db_woo_get_post_id", !.item = i,
                                !.raised = fetchone(db_woo_get_post_id(items, i)),
                                !.flag = RowsOf(items, i) # {}]
        /\ UNCHANGED <<otherVars, cacheVars, today, ebayVars>>

\* db_store_item_metadata_from_ebay(item)
StoreItemMetadata ==
    \E i \in MetaItemIds, pics \in PictureInputs, specs \in SpecificsInputs :
        LET out == db_store_item_metadata_from_ebay(item_metadata, i, pics, specs)
        IN  /\ Cardinality(out.metadata) <= MaxMetaRows
            /\ item_metadata' = out.metadata
            /\ last' = [cmd |-> "store_metadata", item |-> i, calls |-> 0,
                        raised |-> out.raised, kind |-> "none", id |-> 0,
                        flag |-> \/ \E k \in 1..Len(out.calls) :
                                      MetaTriples(item_metadata, i, out.calls[k][1],
                                                  out.calls[k][2]) # {}
                                 \/ \E k, l \in 1..Len(out.calls) :
                                      k # l /\ out.calls[k] = out.calls[l],
                        arg |-> SeqToSet(out.calls)]
            /\ UNCHANGED <<otherVars, items, today, ebayVars>>

Next ==
    \/ StoreItem
    \/ CreateProduct
    \/ DeleteProduct
    \/ GetActiveItemIds
    \/ GetInactiveUploadedItemIds
    \/ GetProductData
    \/ WooGetPostId
    \/ NextDay

Spec == Init /\ [][Next]_vars

(***************************************************************************)
(* SpecMeta: the metadata table                                            *)
(***************************************************************************)
NextMeta == StoreItemMetadata

SpecMeta == Init /\ [][NextMeta]_vars

(***************************************************************************)
(* SpecEbay: one EbayShim object and its caller, one marketplace request   *)
(* per step                                                                *)
(***************************************************************************)
\* the process starts again on the same cache file: EbayShim.__init__
Restart ==
    /\ pc = "idle"
    /\ got_item_ids' = db_ebay_get_got_item_ids(ebay_internals, items)
    /\ pagination' = [total_items |-> 0, total_pages |-> 0,
                      received_items |-> 0, PageNumber |-> 0]
    /\ loop_index' = 0
    /\ trace' = [NoTrace EXCEPT !.ran_on = trace.ran_on]
    /\ UNCHANGED <<otherVars, cacheVars, ebay_internals, today, pc, last>>

\* try_command('get_seller_list') up to the first request: the same-day guard
TryCommandGetSellerList ==
    /\ pc = "idle"
    /\ LET guard == db_ebay_got_seller_list_date(ebay_internals, today)
       IN  /\ ebay_internals' = guard.internals
           /\ pc' = IF guard.passed THEN "get_seller_list" ELSE "idle"
           /\ trace' = [NoTrace EXCEPT !.cmd = "get_seller_list",
                                       !.outcome = IF guard.passed THEN "running"
                                                   ELSE "refused",
                                       !.ran_on = today]
    /\ UNCHANGED <<otherVars, cacheVars, today, got_item_ids, pagination, loop_index, last>>

\* get_seller_list() finds the request counter at the rate limit: it returns
\* None and try_command calls __print_response on it
GetSellerListRateLimited ==
    /\ pc = "get_seller_list"
    /\ ebay_internals.requests_today >= RateLimit
    /\ pagination' = [update_pagination(pagination) EXCEPT
                          !.received_items = update_pagination(pagination).total_items + 1]
    /\ pc' = "idle"
    /\ trace' = [trace EXCEPT !.outcome = "AttributeError", !.limited = TRUE]
    /\ UNCHANGED <<otherVars, cacheVars, ebay_internals, today, got_item_ids, loop_index, last>>

\* get_seller_list() sends the request and the SDK raises ConnectionError:
\* try_command logs it and returns
GetSellerListConnectionError ==
    /\ pc = "get_seller_list"
    /\ ebay_internals.requests_today < RateLimit
    /\ trace.requests < MaxRequests
    /\ pagination' = update_pagination(pagination)
    /\ pc' = "idle"
    /\ trace' = [trace EXCEPT !.outcome = "ConnectionError",
                              !.requests = trace.requests + 1]
    /\ UNCHANGED <<otherVars, cacheVars, ebay_internals, today, got_item_ids, loop_index, last>>

\* get_seller_list() sends the request and it times out: try_command sleeps
\* and calls try_command('get_seller_list') again, which starts at the guard
GetSellerListTimeout ==
    /\ pc = "get_seller_list"
    /\ ebay_internals.requests_today < RateLimit
    /\ trace.requests < MaxRequests
    /\ pagination' = update_pagination(pagination)
    /\ LET guard == db_ebay_got_seller_list_date(ebay_internals, today)
       IN  /\ ebay_internals' = guard.internals
           /\ pc' = IF guard.passed THEN "get_seller_list" ELSE "idle"
           /\ trace' = [trace EXCEPT !.outcome = IF guard.passed THEN "running"
                                                 ELSE "refused",
                                     !.retried = TRUE,
                                     !.requests = trace.requests + 1,
                                     !.ran_on = today]
    /\ UNCHANGED <<otherVars, cacheVars, today, got_item_ids, loop_index, last>>

\* get_seller_list() sends the request and gets a page, then try_command
\* tests pagination_received_items < pagination_total_items
GetSellerListPage ==
    /\ pc = "get_seller_list"
    /\ ebay_internals.requests_today < RateLimit
    /\ trace.requests < MaxRequests
    /\ \E res \in SellerListResponses :
          LET pg == update_pagination(pagination)
              received == pg.received_items + Len(res.Items)
              stored == StorePage(items, item_metadata, got_item_ids, res.Items)
          IN  /\ Len(stored.got_item_ids) <= MaxPending
              /\ ebay_internals' = db_ebay_increment_request_counter(ebay_internals)
              /\ pagination' = [pg EXCEPT !.total_items = res.TotalNumberOfEntries,
                                          !.total_pages = res.TotalNumberOfPages,
                                          !.received_items = received]
              /\ items' = stored.items
              /\ item_metadata' = stored.metadata
              /\ got_item_ids' = stored.got_item_ids
              /\ pc' = IF received < res.TotalNumberOfEntries
                       THEN "get_seller_list" ELSE "idle"
              /\ trace' = [trace EXCEPT !.requests = trace.requests + 1,
                                        !.outcome = IF received < res.TotalNumberOfEntries
                                                    THEN "running" ELSE "completed"]
    /\ UNCHANGED <<otherVars, today, loop_index, last>>

\* get_item_metadata() up to its for loop, entered from try_command
StartItemMetadata(got, retried) ==
    LET pending == IF got = <<>>
                   THEN [k \in 1..Len(db_get_active_item_ids(items)) |->
                             PyInt(db_get_active_item_ids(items)[k])]
                   ELSE got
    IN  /\ got_item_ids' = pending
        /\ loop_index' = 0
        /\ pc' = "get_item_metadata"
        /\ trace' = [NoTrace EXCEPT !.cmd = "get_item_metadata",
                                    !.start = pending,
                                    !.retried = retried,
                                    !.outcome = "running",
                                    !.requests = IF retried THEN trace.requests + 1
                                                 ELSE 0,
                                    !.ran_on = trace.ran_on]

\* try_command('get_item_metadata')
TryCommandGetItemMetadata ==
    /\ pc = "idle"
    /\ StartItemMetadata(got_item_ids, FALSE)
    /\ UNCHANGED <<otherVars, cacheVars, ebay_internals, today, pagination, last>>

\* what get_item_metadata does after its for loop
AlwaysKeepCheckpoint(internals, got) == internals
after_loop(internals, got) ==
    IF got # <<>> THEN db_ebay_store_got_item_ids(internals, <<>>) ELSE internals

\* the list iterator is exhausted: the for loop ends
ItemMetadataLoopEnds ==
    /\ pc = "get_item_metadata"
    /\ loop_index >= Len(got_item_ids)
    /\ ebay_internals' = after_loop(ebay_internals, got_item_ids)
    /\ pc' = "idle"
    /\ loop_index' = 0
    /\ trace' = [trace EXCEPT !.outcome = "completed"]
    /\ UNCHANGED <<otherVars, cacheVars, today, got_item_ids, pagination, last>>

\* a round of the for loop in which GetItem times out: the except clause of
\* try_command sleeps and calls self.try_command(command), so
\* get_item_metadata starts again with the list as it is now
ItemMetadataTimeout ==
    /\ pc = "get_item_metadata"
    /\ loop_index < Len(got_item_ids)
    /\ ebay_internals.requests_today < RateLimit
    /\ trace.requests < MaxRequests
    /\ StartItemMetadata(ListRemove(got_item_ids, got_item_ids[loop_index + 1]), TRUE)
    /\ UNCHANGED <<otherVars, cacheVars, ebay_internals, today, pagination, last>>

\* one round of the for loop: the iterator yields the element at its index,
\* the element is removed from the list it iterates
ItemMetadataRound ==
    /\ pc = "get_item_metadata"
    /\ loop_index < Len(got_item_ids)
    /\ LET item_id == got_item_ids[loop_index + 1]
           remaining == ListRemove(got_item_ids, item_id)
       IN  \/ \* the budget is used up: store the list, break
              /\ ebay_internals.requests_today >= RateLimit
              /\ got_item_ids' = remaining
              /\ loop_index' = 0
              /\ ebay_internals' =
                    after_loop(db_ebay_store_got_item_ids(ebay_internals, remaining),
                               remaining)
              /\ pc' = "idle"
              /\ trace' = [trace EXCEPT !.limited = TRUE, !.outcome = "rate_limited"]
              /\ UNCHANGED <<otherVars, cacheVars, today, pagination, last>>
           \/ \* GetItem answers
              /\ ebay_internals.requests_today < RateLimit
              /\ trace.requests < MaxRequests
              /\ \E specs \in GetItemSpecifics :
                    LET out == db_store_item_metadata_from_ebay(
                                   item_metadata, item_id, ListingPictures, specs)
                    IN  /\ item_metadata' = out.metadata
                        /\ pc' = IF out.raised = "none" THEN "get_item_metadata"
                                 ELSE "idle"
                        /\ loop_index' = IF out.raised = "none" THEN loop_index + 1
                                         ELSE 0
                        /\ trace' = [trace EXCEPT
                                        !.fetched = Append(trace.fetched, item_id),
                                        !.requests = trace.requests + 1,
                                        !.outcome = IF out.raised = "none" THEN "running"
                                                    ELSE out.raised]
              /\ got_item_ids' = remaining
              /\ ebay_internals' = db_ebay_increment_request_counter(ebay_internals)
              /\ UNCHANGED <<otherVars, items, today, pagination, last>>
           \/ \* GetItem raises ConnectionError: try_command logs it and returns
              /\ ebay_internals.requests_today < RateLimit
              /\ trace.requests < MaxRequests
              /\ got_item_ids' = remaining
              /\ loop_index' = 0
              /\ pc' = "idle"
              /\ trace' = [trace EXCEPT !.requests = trace.requests + 1,
                                        !.outcome = "ConnectionError"]
              /\ UNCHANGED <<otherVars, cacheVars, ebay_internals, today, pagination, last>>
           \/ \* GetItem times out
              ItemMetadataTimeout

NextEbay ==
    \/ Restart
    \/ NextDay
    \/ TryCommandGetSellerList
    \/ GetSellerListRateLimited
    \/ GetSellerListConnectionError
    \/ GetSellerListTimeout
    \/ GetSellerListPage
    \/ TryCommandGetItemMetadata
    \/ ItemMetadataLoopEnds
    \/ ItemMetadataRound

SpecEbay == Init /\ [][NextEbay]_vars

(***************************************************************************)
(* SpecQueue: ProductUploadQueue (bin/shim/queue.py). One step of a thread *)
(* is one call on the queue.Queue or one create_product.                   *)
(***************************************************************************)
\* the variables the cache and source-sync steps write
coreVars == <<cacheVars, ebayVars, today, last, shimVars>>

\* a queue entry is an item id Val(i) or the sentinel None
None == NULL

\* the caches a queue is constructed on
QueueCacheRows ==
    {ItemRow([ItemID |-> i, ListingStatus |-> "Active", Quantity |-> 1,
              QuantitySold |-> 0, Title |-> "t1", EndTime |-> 2]) : i \in ItemIds}
QueueCaches == {{}, QueueCacheRows}

\* the item_ids argument of ProductUploadQueue.__init__
QueueItemLists == {<<>>, <<1>>, <<2, 1>>, <<1, 2, 1>>}

\* a cache that holds the rows its, on day 1, and no source command running
CacheWith(its) ==
    /\ items = its
    /\ item_metadata = {}
    /\ ebay_internals = [requests_today |-> 0, got_item_ids |-> <<>>,
                         got_seller_list_date |-> NULL]
    /\ today = 1
    /\ got_item_ids = <<>>
    /\ pagination = [total_items |-> 0, total_pages |-> 0,
                     received_items |-> 0, PageNumber |-> 0]
    /\ pc = "idle"
    /\ loop_index = 0
    /\ trace = NoTrace
    /\ last = NoOp

\* ProductUploadQueue.__init__ up to self.start(): item_ids is the argument
\* or db_get_active_item_ids(), every id is put on the queue
InitQueue ==
    /\ NoShim
    /\ \E its \in QueueCaches : CacheWith(its)
    /\ item_ids \in QueueItemLists \cup {db_get_active_item_ids(items)}
    /\ queue = [k \in 1..Len(item_ids) |-> Val(item_ids[k])]
    /\ unfinished_tasks = Len(item_ids)
    /\ workers \in 1..MaxWorkers
    /\ threads = <<>>
    /\ producer = [pc |-> "start_threads", index |-> 0]
    /\ processed = [i \in ItemIds |-> 0]
    /\ woo = NoCall
    /\ server = NoServer
    /\ Migrated

\* __start_threads: one round of its loop starts a thread and appends it
StartThread ==
    /\ producer.pc = "start_threads"
    /\ producer.index < workers
    /\ threads' = Append(threads, [pc |-> "get", item |-> None, sentinels |-> 0,
                                   raised |-> "none"])
    /\ producer' = IF producer.index + 1 < workers
                   THEN [producer EXCEPT !.index = producer.index + 1]
                   ELSE [pc |-> "queue_join", index |-> 0]
    /\ UNCHANGED <<coreVars, woo, server, migrateVars, item_ids, queue, unfinished_tasks, workers, processed>>

\* queue.Queue.join() returns when unfinished_tasks is zero
JoinReturnsAtOnce(unfinished) == TRUE
queue_join_returns(unfinished) == unfinished = 0

\* __finish_queue: self.queue.join()
QueueJoin ==
    /\ producer.pc = "queue_join"
    /\ queue_join_returns(unfinished_tasks)
    /\ producer' = [pc |-> "put_sentinels", index |-> 0]
    /\ UNCHANGED <<coreVars, woo, server, migrateVars, item_ids, queue, unfinished_tasks, workers, threads,
                   processed>>

\* __finish_queue: one round of the loop of put_nowait(None)
PutSentinel ==
    /\ producer.pc = "put_sentinels"
    /\ queue' = Append(queue, None)
    /\ unfinished_tasks' = unfinished_tasks + 1
    /\ producer' = IF producer.index + 1 < workers
                   THEN [producer EXCEPT !.index = producer.index + 1]
                   ELSE [pc |-> "join_threads", index |-> 0]
    /\ UNCHANGED <<coreVars, woo, server, migrateVars, item_ids, workers, threads, processed>>

\* __finish_threads: worker_thread.join() returns when the thread has ended,
\* by leaving its loop or by an exception; after the last join start() returns
JoinThread ==
    /\ producer.pc = "join_threads"
    /\ threads[producer.index + 1].pc \in {"exited", "raised"}
    /\ producer' = IF producer.index + 1 < workers
                   THEN [producer EXCEPT !.index = producer.index + 1]
                   ELSE [pc |-> "returned", index |-> 0]
    /\ UNCHANGED <<coreVars, woo, server, migrateVars, item_ids, queue, unfinished_tasks, workers, threads,
                   processed>>

\* worker: item_id = self.queue.get(), which blocks on an empty queue; None
\* ends the loop
WorkerGet(w) ==
    /\ threads[w].pc = "get"
    /\ queue # <<>>
    /\ queue' = Tail(queue)
    /\ threads' = [threads EXCEPT ![w] =
                      IF Head(queue) = None
                      THEN [@ EXCEPT !.pc = "exited", !.sentinels = @ + 1]
                      ELSE [@ EXCEPT !.pc = "create_product", !.item = Head(queue)]]
    /\ UNCHANGED <<coreVars, woo, server, migrateVars, item_ids, unfinished_tasks, workers, producer, processed>>

\* worker: api.create_product(item_id); an exception ends the thread
WorkerCreateProduct(w) ==
    /\ threads[w].pc = "create_product"
    /\ \E res \in WooCreateResponses :
          LET out == create_product(items, threads[w].item[1], res)
          IN  /\ items' = out.items
              /\ threads' = [threads EXCEPT
                                ![w].pc = IF out.raised = "none" THEN "task_done"
                                          ELSE "raised",
                                ![w].raised = out.raised]
    /\ UNCHANGED <<item_metadata, ebayVars, today, last, shimVars, woo, server, migrateVars, item_ids, queue,
                   unfinished_tasks, workers, producer, processed>>

\* worker: self.queue.task_done()
WorkerTaskDone(w) ==
    /\ threads[w].pc = "task_done"
    /\ unfinished_tasks' = unfinished_tasks - 1
    /\ processed' = [processed EXCEPT ![threads[w].item[1]] = @ + 1]
    /\ threads' = [threads EXCEPT ![w].pc = "get"]
    /\ UNCHANGED <<coreVars, woo, server, migrateVars, item_ids, queue, workers, producer>>

\* BaseQueue.start, run by the constructing thread
Producer ==
    \/ StartThread
    \/ QueueJoin
    \/ PutSentinel
    \/ JoinThread

\* ProductUploadQueue.worker, run by thread w
Worker(w) ==
    /\ w \in 1..Len(threads)
    /\ \/ WorkerGet(w)
       \/ WorkerCreateProduct(w)
       \/ WorkerTaskDone(w)

NextQueue ==
    \/ Producer
    \/ \E w \in 1..MaxWorkers : Worker(w)

SpecQueue == InitQueue /\ [][NextQueue]_vars

\* every thread that can take a step eventually takes one
SpecQueueFair ==
    /\ SpecQueue
    /\ WF_vars(Producer)
    /\ \A w \in 1..MaxWorkers : WF_vars(Worker(w))

(***************************************************************************)
(* SpecDispatch: try_command of both shims (bin/shim/woo.py,               *)
(* bin/shim/ebay.py) for a serial caller. One step of a running            *)
(* WooCommerceShim.try_command call is one attempt of its command.         *)
(***************************************************************************)
\* __available_commands of WooCommerceShim.try_command
WooAvailableCommands ==
    {"create_product", "delete_product", "upload_images", "delete_all_products",
     "upload_attributes"}

\* __available_commands of EbayShim.try_command
EbayAvailableCommands == {"get_seller_list", "get_item_metadata"}

\* the command names the callers pass to WooCommerceShim.try_command
\* (Server.__woo_upload_products, __woo_upload_metadata, __woo_delete_products)
WooCommandNames == {"create_product", "delete_product", "set_featured_image"}

\* names outside the allow-list of EbayShim.try_command
EbayUnrecognizedNames == {"create_product", "get_item"}

\* the test in front of the try statement of WooCommerceShim.try_command
woo_command_refused(command) == command \notin WooAvailableCommands

\* the test in front of the try statement of EbayShim.try_command
EbayNothingRefused(command) == FALSE
ebay_command_refused(command) == command \notin EbayAvailableCommands

\* the timeout-class exceptions that the except clause of
\* WooCommerceShim.try_command names
WooTimeouts == {"Timeout"}

\* WooCommerceShim.try_command(command, data) up to its try statement
try_command(command, data) ==
    /\ woo.pc = "idle"
    /\ woo' = IF woo_command_refused(command)
              THEN [NoCall EXCEPT !.command = command, !.data = data,
                                  !.raised = "NameError"]
              ELSE [NoCall EXCEPT !.command = command, !.data = data,
                                  !.pc = "try"]
    /\ UNCHANGED <<coreVars, migrateVars, queueVars>>

\* a caller runs try_command with some command name and item id
WooTryCommand ==
    /\ \E command \in WooCommandNames, data \in ItemIds : try_command(command, data)
    /\ UNCHANGED server

\* the command of a WooCommerceShim.try_command call and what it leaves
woo_run_command(its, command, data, create_res, delete_res) ==
    IF command = "create_product"
    THEN create_product(its, data, create_res)
    ELSE [items |-> its, calls |-> delete_product(its, data, delete_res).calls,
          raised |-> delete_product(its, data, delete_res).raised]

\* what the except clause of WooCommerceShim.try_command does with an
\* exception of its try block: a timeout sleeps and calls
\* self.try_command(command, data), every other exception propagates
woo_except(call, raised) ==
    IF raised \in WooTimeouts THEN "try" ELSE "idle"

\* one attempt of the command inside the try statement
WooAttempt ==
    /\ woo.pc = "try"
    /\ woo.attempts < MaxAttempts
    /\ \E create_res \in WooCreateResponses, delete_res \in WooDeleteResponses :
          LET out == woo_run_command(items, woo.command, woo.data,
                                     create_res, delete_res)
          IN  /\ items' = out.items
              /\ woo' = [woo EXCEPT !.attempts = @ + 1,
                                    !.calls = @ + out.calls,
                                    !.raised = out.raised,
                                    !.pc = woo_except(woo, out.raised)]
    /\ UNCHANGED <<item_metadata, ebayVars, today, last, shimVars, queueVars, server, migrateVars>>

\* EbayShim.try_command(command) with a name outside its allow-list: the
\* NameError of the first test leaves the method; a NameError raised inside
\* the try statement is caught by 'except NameError: pass'
TryCommandUnrecognized ==
    /\ pc = "idle"
    /\ \E command \in EbayUnrecognizedNames :
          trace' = [NoTrace EXCEPT !.cmd = command,
                                   !.outcome = IF ebay_command_refused(command)
                                               THEN "NameError" ELSE "returned",
                                   !.ran_on = trace.ran_on]
    /\ UNCHANGED <<cacheVars, ebay_internals, got_item_ids, pagination, pc,
                   loop_index, today, last, otherVars>>

\* both shims constructed on a cache that the source sync has filled or not
InitDispatch ==
    /\ NoShim
    /\ \E its \in QueueCaches : CacheWith(its)
    /\ NoQueue
    /\ woo = NoCall
    /\ server = NoServer
    /\ Migrated

NextDispatch ==
    \/ WooTryCommand
    \/ WooAttempt
    \/ TryCommandUnrecognized

SpecDispatch == InitDispatch /\ [][NextDispatch]_vars

(***************************************************************************)
(* SpecServer: Server.start (bin/server.py) on one Server object. The      *)
(* steps of the source phase are those of SpecEbay, the steps of the       *)
(* destination phases those of SpecDispatch.                               *)
(***************************************************************************)
\* the caches a Server is constructed on: empty, two active items that were
\* not pushed, and an ended item that was pushed next to an active one
ServerCaches ==
    QueueCaches \cup
    {{[ItemRow([ItemID |-> 1, ListingStatus |-> "Completed", Quantity |-> 1,
                QuantitySold |-> 0, Title |-> "t1", EndTime |-> 2])
           EXCEPT !.post_id = Val(1)],
      ItemRow([ItemID |-> 2, ListingStatus |-> "Active", Quantity |-> 1,
               QuantitySold |-> 0, Title |-> "t1", EndTime |-> 2])}}

\* Server.__init__: the shims are constructed and both id lists are read
\* from the cache as it is then
InitServer ==
    /\ NoShim
    /\ \E its \in ServerCaches : CacheWith(its)
    /\ NoQueue
    /\ woo = NoCall
    /\ Migrated
    /\ server = [phase |-> "ebay_download_products", index |-> 0,
                 active_item_ids |-> db_get_active_item_ids(items),
                 inactive_item_ids |->
                     db_get_inactive_uploaded_item_ids(items, today),
                 raised |-> "none"]

\* the phases of Server.start that loop over a list of ids
WooPhases == {"woo_upload_products", "woo_upload_metadata", "woo_delete_products"}

\* the list a phase iterates, the command it passes and the phase after it
PhaseList(phase) ==
    IF phase = "woo_delete_products" THEN server.inactive_item_ids
    ELSE server.active_item_ids
PhaseCommand(phase) ==
    IF phase = "woo_upload_products" THEN "create_product"
    ELSE IF phase = "woo_upload_metadata" THEN "set_featured_image"
    ELSE "delete_product"
PhaseAfter(phase) ==
    IF phase = "woo_upload_products" THEN "woo_upload_metadata"
    ELSE IF phase = "woo_upload_metadata" THEN "woo_delete_products"
    ELSE "returned"

\* an exception leaves Server.start: no method of Server has a try statement
ServerRaises(raised) == [server EXCEPT !.phase = "raised", !.raised = raised]

\* __ebay_download_products: self.ebay.try_command('get_seller_list')
ServerEbayDownloadProducts ==
    /\ server.phase = "ebay_download_products"
    /\ \/ trace.cmd = "none" /\ TryCommandGetSellerList
       \/ GetSellerListRateLimited
       \/ GetSellerListConnectionError
       \/ GetSellerListTimeout
       \/ GetSellerListPage

\* try_command('get_seller_list') has returned or raised;
\* __ebay_download_metadata does nothing
ServerEbayDownloadEnds ==
    /\ server.phase = "ebay_download_products"
    /\ pc = "idle"
    /\ trace.cmd = "get_seller_list"
    /\ server' = IF trace.outcome = "AttributeError"
                 THEN ServerRaises("AttributeError")
                 ELSE [server EXCEPT !.phase = "update_mysql_database"]
    /\ UNCHANGED <<coreVars, migrateVars, queueVars, woo>>

\* __update_mysql_database: the MySQL server is outside the model. The
\* methods insert_items and sanity_check_* call Database.db_get_all_items,
\* which bin/shim/db.py does not define: the phase returns (a Database that
\* has the method) or raises (AttributeError, or an error of the connector)
ServerUpdateMysqlDatabase ==
    /\ server.phase = "update_mysql_database"
    /\ \E returns \in BOOLEAN :
          server' = IF returns
                    THEN [server EXCEPT !.phase = "woo_upload_products"]
                    ELSE ServerRaises("AttributeError")
    /\ UNCHANGED <<coreVars, migrateVars, queueVars, woo>>

\* one round of the for loop of __woo_upload_products, __woo_upload_metadata
\* or __woo_delete_products: self.woo.try_command(command, item_id)
ServerWooCall ==
    /\ server.phase \in WooPhases
    /\ woo = NoCall
    /\ server.index < Len(PhaseList(server.phase))
    /\ try_command(PhaseCommand(server.phase),
                   PhaseList(server.phase)[server.index + 1])
    /\ server' = [server EXCEPT !.index = @ + 1]

\* the call runs its command
ServerWooAttempt ==
    /\ server.phase \in WooPhases
    /\ WooAttempt

\* try_command has returned, or an exception has left it
ServerWooReturns ==
    /\ server.phase \in WooPhases
    /\ woo.pc = "idle"
    /\ woo.command # "none"
    /\ woo' = NoCall
    /\ server' = IF woo.raised = "none" THEN server ELSE ServerRaises(woo.raised)
    /\ UNCHANGED <<coreVars, migrateVars, queueVars>>

\* the for loop of the phase is over
ServerPhaseEnds ==
    /\ server.phase \in WooPhases
    /\ woo = NoCall
    /\ server.index = Len(PhaseList(server.phase))
    /\ server' = [server EXCEPT !.phase = PhaseAfter(server.phase), !.index = 0]
    /\ UNCHANGED <<coreVars, migrateVars, queueVars, woo>>

NextServer ==
    \/ ServerEbayDownloadProducts
    \/ ServerEbayDownloadEnds
    \/ ServerUpdateMysqlDatabase
    \/ ServerWooCall
    \/ ServerWooAttempt
    \/ ServerWooReturns
    \/ ServerPhaseEnds

SpecServer == InitServer /\ [][NextServer]_vars

(***************************************************************************)
(* SpecMigrate: Database.__init__ on one cache file, startup after         *)
(* startup (bin/shim/db.py). One step of executescript is one statement.   *)
(***************************************************************************)
\* the statements of the three migrations; first marks the first statement
\* of a migration
Statement(op, name, migration, first) ==
    [op |-> op, name |-> name, migration |-> migration, first |-> first, version |-> 0]

\* increment_version(): the text "PRAGMA user_version = <get_version() + 1>",
\* formatted while the query is built
increment_version(version, migration) ==
    [op |-> "pragma", name |-> "user_version", migration |-> migration,
     first |-> FALSE, version |-> version + 1]

Migration1(version) ==
    <<Statement("alter", "items", 1, TRUE),
      Statement("alter", "item_metadata", 1, FALSE),
      increment_version(version, 1)>>
Migration2(version) ==
    <<Statement("create", "ebay_internals", 2, TRUE),
      Statement("insert", "requests_today", 2, FALSE),
      Statement("insert", "got_item_ids", 2, FALSE),
      increment_version(version, 2)>>
Migration3(version) ==
    <<Statement("insert", "got_seller_list_date", 3, TRUE),
      increment_version(version, 3)>>

\* the query __migrate_tables builds: every get_version() reads the stored
\* version, and nothing is executed before the query is complete
migrate_query(version) ==
    (IF version < 1 THEN Migration1(version) ELSE <<>>)
        \o (IF version < 2 THEN Migration2(version) ELSE <<>>)
        \o (IF version < 3 THEN Migration3(version) ELSE <<>>)

\* what sqlite does with one statement: the exception it raises, if any
statement_raises(sch, st) ==
    IF st.op = "alter" /\ st.name = "items" /\ sch.items_post_id
    THEN "OperationalError"
    ELSE IF st.op = "alter" /\ st.name = "item_metadata" /\ sch.item_metadata_post_id
    THEN "OperationalError"
    ELSE IF st.op = "insert" /\ ~sch.ebay_internals
    THEN "OperationalError"
    ELSE IF st.op = "insert" /\ st.name \in sch.keys
    THEN "IntegrityError"
    ELSE "none"

\* the schema after a statement that does not raise
statement_effect(sch, st) ==
    IF st.op = "alter" /\ st.name = "items"
    THEN [sch EXCEPT !.items_post_id = TRUE]
    ELSE IF st.op = "alter"
    THEN [sch EXCEPT !.item_metadata_post_id = TRUE]
    ELSE IF st.op = "create"
    THEN [sch EXCEPT !.ebay_internals = TRUE]
    ELSE IF st.op = "insert"
    THEN [sch EXCEPT !.keys = @ \cup {st.name}]
    ELSE [sch EXCEPT !.user_version = st.version]

\* the rows of ebay_internals after a statement that does not raise: an
\* INSERT stores the initial value of its key
statement_rows(internals, st) ==
    IF st.op = "insert" /\ st.name = "requests_today"
    THEN [internals EXCEPT !.requests_today = 0]
    ELSE IF st.op = "insert" /\ st.name = "got_item_ids"
    THEN [internals EXCEPT !.got_item_ids = <<>>]
    ELSE IF st.op = "insert"
    THEN [internals EXCEPT !.got_seller_list_date = NULL]
    ELSE internals

\* a cache file that stores a version 0..3 and holds the migrations up to it
InitMigrate ==
    /\ NoShim
    /\ CacheWith({})
    /\ NoQueue
    /\ woo = NoCall
    /\ server = NoServer
    /\ \E v \in 0..LastMigration :
          /\ schema = SchemaAt(v)
          /\ startup = [NoStartup EXCEPT !.from = v]

\* Database.__init__ up to executescript(query): __create_tables creates no
\* table that exists, __migrate_tables builds its query
DatabaseInit ==
    /\ startup.pc \in {"none", "done", "raised"}
    /\ startup.count < MaxStartups
    /\ startup' = [startup EXCEPT !.pc = "executescript",
                                  !.script = migrate_query(schema.user_version),
                                  !.count = @ + 1,
                                  !.raised = "none"]
    /\ UNCHANGED <<coreVars, queueVars, woo, server, schema>>

\* executescript runs the next statement of the query in autocommit mode; an
\* exception leaves Database.__init__ and keeps what was executed before
ExecuteStatement ==
    /\ startup.pc = "executescript"
    /\ startup.script # <<>>
    /\ LET st == Head(startup.script)
           raised == statement_raises(schema, st)
           ran == IF st.first
                  THEN [startup.ran EXCEPT ![st.migration] = @ + 1]
                  ELSE startup.ran
       IN  IF raised # "none"
           THEN /\ startup' = [startup EXCEPT !.pc = "raised", !.script = <<>>,
                                              !.ran = ran, !.raised = raised]
                /\ UNCHANGED <<schema, ebay_internals>>
           ELSE /\ startup' = [startup EXCEPT !.script = Tail(@), !.ran = ran]
                /\ schema' = statement_effect(schema, st)
                /\ ebay_internals' = statement_rows(ebay_internals, st)
    /\ UNCHANGED <<cacheVars, today, got_item_ids, pagination, pc, loop_index,
                   trace, last, shimVars, queueVars, woo, server>>

\* the query is exhausted: Database.__init__ returns
DatabaseInitReturns ==
    /\ startup.pc = "executescript"
    /\ startup.script = <<>>
    /\ startup' = [startup EXCEPT !.pc = "done"]
    /\ UNCHANGED <<coreVars, queueVars, woo, server, schema>>

\* the constructed object counts a marketplace request
MigrateIncrementRequestCounter ==
    /\ startup.pc = "done"
    /\ "requests_today" \in schema.keys
    /\ ebay_internals.requests_today < RateLimit
    /\ ebay_internals' = db_ebay_increment_request_counter(ebay_internals)
    /\ UNCHANGED <<cacheVars, today, got_item_ids, pagination, pc, loop_index,
                   trace, last, otherVars>>

NextMigrate ==
    \/ DatabaseInit
    \/ ExecuteStatement
    \/ DatabaseInitReturns
    \/ MigrateIncrementRequestCounter

SpecMigrate == InitMigrate /\ [][NextMigrate]_vars

(***************************************************************************)
(* SpecPage: listing pulls of one EbayShim object from a marketplace that  *)
(* reports its total and serves page n of its listings on request n        *)
(***************************************************************************)
MaxTotal == 5
RemoteTotals == 0..MaxTotal
PageSizes == {2, 3}

\* the number of pages of t entries, p entries per page
Ceil(t, p) == (t + p - 1) \div p

\* the k-th listing of the marketplace: the listings 2 and 5 have ended
RemoteListing(k) == Listing(k, IF k \in {2, 5} THEN "Completed" ELSE "Active")

\* the ItemSpecifics the marketplace sends inline with its k-th listing:
\* none, but with listing 4 a lone NameValueList whose Value is a list when
\* it sends specifics with its listings
RemoteSpecifics(r, k) ==
    IF r.ItemSpecifics /\ k = 4
    THEN [t |-> "dict", v |-> <<[Name |-> "Brand",
                                Value |-> [t |-> "list", v |-> << <<"x">>, <<"y">> >>]]>>]
    ELSE ListingSpecifics

\* the items of page n: EntriesPerPage listings, fewer on the last page and
\* none past it
RemotePage(r, n) ==
    LET first == (n - 1) * r.EntriesPerPage
        left == r.TotalNumberOfEntries - first
        count == IF left <= 0 THEN 0
                 ELSE IF left < r.EntriesPerPage THEN left ELSE r.EntriesPerPage
    IN  [k \in 1..count |-> RemoteListing(first + k)]

\* the GetSellerList response to seller_filter_dict with PageNumber n
ServedResponse(r, n) ==
    [TotalNumberOfEntries |-> r.TotalNumberOfEntries,
     TotalNumberOfPages |-> Ceil(r.TotalNumberOfEntries, r.EntriesPerPage),
     Items |-> RemotePage(r, n)]

\* the loop of get_seller_list over the items of a served page: as
\* StorePage, with the inline ItemSpecifics of each listing; an exception of
\* db_store_item_metadata_from_ebay ends the loop
RECURSIVE StoreServedPage(_, _, _, _, _)
StoreServedPage(r, its, md, got, page) ==
    IF page = <<>>
    THEN [items |-> its, metadata |-> md, got_item_ids |-> got, raised |-> "none"]
    ELSE LET item == Head(page)
             its1 == db_store_item_from_ebay(its, item)
             out == db_store_item_metadata_from_ebay(
                        md, item.ItemID, ListingPictures, RemoteSpecifics(r, item.ItemID))
         IN  IF item.ListingStatus # "Active"
             THEN StoreServedPage(r, its1, md, got, Tail(page))
             ELSE IF out.raised # "none"
             THEN [items |-> its1, metadata |-> out.metadata, got_item_ids |-> got,
                   raised |-> out.raised]
             ELSE StoreServedPage(r, its1, out.metadata,
                                  Append(got, PyStr(item.ItemID)), Tail(page))

\* a new cache file, a new EbayShim object and a marketplace
InitPage ==
    /\ CacheWith({})
    /\ NoQueue
    /\ woo = NoCall
    /\ server = NoServer
    /\ Migrated
    /\ remote \in [TotalNumberOfEntries : RemoteTotals, EntriesPerPage : PageSizes,
                    ItemSpecifics : BOOLEAN]
    /\ date_range = NoDateRange
    /\ category_mapping = NULL
    /\ seller_filter_dict = NoFilter
    /\ runs = <<>>

\* get_seller_list() sends the request for the page of its cursor and stores
\* what the marketplace serves, then try_command tests
\* pagination_received_items < pagination_total_items; a NameError of the
\* item loop is caught by try_command, which returns. trace.fetched takes
\* the page number sent
GetSellerListServedPage ==
    /\ pc = "get_seller_list"
    /\ ebay_internals.requests_today < RateLimit
    /\ LET pg == update_pagination(pagination)
           res == ServedResponse(remote, pg.PageNumber)
           received == pg.received_items + Len(res.Items)
           stored == StoreServedPage(remote, items, item_metadata, got_item_ids, res.Items)
           again == stored.raised = "none" /\ received < res.TotalNumberOfEntries
       IN  /\ ebay_internals' = db_ebay_increment_request_counter(ebay_internals)
           /\ pagination' = [pg EXCEPT !.total_items = res.TotalNumberOfEntries,
                                       !.total_pages = res.TotalNumberOfPages,
                                       !.received_items = received]
           /\ items' = stored.items
           /\ item_metadata' = stored.metadata
           /\ got_item_ids' = stored.got_item_ids
           /\ pc' = IF again THEN "get_seller_list" ELSE "idle"
           /\ trace' = [trace EXCEPT !.requests = trace.requests + 1,
                                     !.fetched = Append(trace.fetched, pg.PageNumber),
                                     !.outcome = IF again THEN "running"
                                                 ELSE IF stored.raised # "none"
                                                 THEN "abandoned" ELSE "completed"]
    /\ UNCHANGED <<otherVars, today, loop_index, last>>

NextPage ==
    \/ TryCommandGetSellerList
    \/ GetSellerListServedPage
    \/ GetSellerListRateLimited
    \/ Restart
    \/ NextDay

SpecPage == InitPage /\ [][NextPage]_vars

(***************************************************************************)
(* SpecShim: methods of the shim objects that compute their result from    *)
(* their arguments, called by a serial caller                              *)
(***************************************************************************)
MaxSpan == 2
DaySpans == (0 - MaxSpan)..MaxSpan
Dates == {2, 3, 4}
RangeTypes == {"Start", "Mod", "End"}

\* a date argument: None, a string strptime('%Y-%m-%d') rejects, or a date
DateArguments ==
    {[t |-> "None", v |-> 0], [t |-> "unparsable", v |-> 0]}
        \cup {[t |-> "date", v |-> d] : d \in Dates}

\* __check_date_type: a date passes through, anything else gives today
check_date_type(the_date, now) ==
    IF the_date.t = "date" THEN the_date.v ELSE now

\* the calendar of strftime: a day number is written as its month and its
\* day of the month, both at a fixed width
DaysPerMonth == 3
MonthOf(d) == ((d - 1) \div DaysPerMonth) + 1
DayOfMonth(d) == ((d - 1) % DaysPerMonth) + 1

\* strftime('%Y-%m-%dT00:00:00.000Z') and strftime('%Y-%m-%dT23:59:59.999Z'):
\* the fields of the string, left to right
strftime_start(d) == <<MonthOf(d), DayOfMonth(d), 0, 0, 0, 0>>
strftime_stop(d) == <<MonthOf(d), DayOfMonth(d), 23, 59, 59, 999>>

\* a < b for two strings of fixed-width fields
RECURSIVE StrLess(_, _)
StrLess(a, b) ==
    IF a = <<>> \/ b = <<>> THEN a = <<>> /\ b # <<>>
    ELSE IF Head(a) # Head(b) THEN Head(a) < Head(b)
    ELSE StrLess(Tail(a), Tail(b))

\* the test 'if stop_date < start_date' of set_date_range
NeverSwapped(start, stop) == FALSE
stop_before_start(start, stop) == StrLess(stop, start)

\* set_date_range(start_date, days, stop_date, range_type)
set_date_range(start_date, days, stop_date, range_type, now) ==
    LET start == check_date_type(start_date, now)
        stop == IF stop_date.t # "None" THEN check_date_type(stop_date, now)
                ELSE start + days
        from == strftime_start(start)
        to == strftime_stop(stop)
    IN  IF stop_before_start(from, to)
        THEN [from |-> to, to |-> from, type |-> range_type]
        ELSE [from |-> from, to |-> to, type |-> range_type]

\* EbayShim.set_date_range; last.arg keeps the start date that was resolved,
\* days and the stop_date argument
SetDateRange ==
    \E start_date \in DateArguments, days \in DaySpans,
       stop_date \in DateArguments, range_type \in RangeTypes :
        /\ date_range' = set_date_range(start_date, days, stop_date, range_type, today)
        /\ last' = [NoOp EXCEPT !.cmd = "set_date_range",
                                !.arg = [start_date |-> check_date_type(start_date, today),
                                         days |-> days, stop_date |-> stop_date]]
        /\ UNCHANGED <<cacheVars, ebayVars, today, queueVars, woo, server, migrateVars,
                       remote, category_mapping, seller_filter_dict, runs>>

\* the window keys of set_range_filter's list 'filters'
filters ==
    {"StartTimeFrom", "StartTimeTo", "ModTimeFrom", "ModTimeTo",
     "EndTimeFrom", "EndTimeTo"}

\* the_dict[key] = value
SetItem(the_dict, key, value) ==
    [k \in DOMAIN the_dict \cup {key} |-> IF k = key THEN value ELSE the_dict[k]]

\* the loop of set_range_filter: del seller_filter_dict[the_filter] for
\* every window key, a KeyError skips to the next key
KeepsOldFilters(the_dict) == the_dict
delete_filters(the_dict) ==
    [k \in DOMAIN the_dict \ filters |-> the_dict[k]]

\* set_range_filter(): date_range = {} has no key 'type', the KeyError
\* leaves the method after the loop
set_range_filter(the_dict, range) ==
    LET deleted == delete_filters(the_dict)
    IN  IF range = NoDateRange
        THEN [raised |-> "KeyError", seller_filter_dict |-> deleted]
        ELSE [raised |-> "none",
              seller_filter_dict |->
                  SetItem(SetItem(deleted, range.type \o "TimeFrom", range.from),
                          range.type \o "TimeTo", range.to)]

\* EbayShim.set_range_filter; last.arg keeps the filter the call found
SetRangeFilter ==
    LET out == set_range_filter(seller_filter_dict, date_range)
    IN  /\ seller_filter_dict' = out.seller_filter_dict
        /\ last' = [NoOp EXCEPT !.cmd = "set_range_filter", !.raised = out.raised,
                                !.arg = seller_filter_dict]
        /\ UNCHANGED <<cacheVars, ebayVars, today, queueVars, woo, server, migrateVars,
                       remote, date_range, category_mapping, runs>>

\* the filters a shim object can hold before its window is set: the empty
\* one of __init__ and the one get_seller_list gave its default DetailLevel
FiltersWithoutWindow ==
    {NoFilter, SetItem(NoFilter, "DetailLevel", "ItemReturnDescription")}

\* set_date_range(start_date='', days=N, range_type=T), the call of
\* Server.__init__ and of EbayDownloadQueue.run with other days and types
SetDateRangeDays ==
    \E days \in {0, MaxSpan}, range_type \in RangeTypes :
        /\ date_range' = set_date_range([t |-> "unparsable", v |-> 0], days,
                                        [t |-> "None", v |-> 0], range_type, today)
        /\ last' = [NoOp EXCEPT !.cmd = "set_date_range",
                                !.arg = [start_date |-> today, days |-> days,
                                         stop_date |-> [t |-> "None", v |-> 0]]]
        /\ UNCHANGED <<cacheVars, ebayVars, today, queueVars, woo, server, migrateVars,
                       remote, category_mapping, seller_filter_dict, runs>>

InitFilter ==
    /\ CacheWith({})
    /\ NoQueue
    /\ woo = NoCall
    /\ server = NoServer
    /\ Migrated
    /\ remote = NoRemote
    /\ date_range = NoDateRange
    /\ category_mapping = NULL
    /\ seller_filter_dict \in FiltersWithoutWindow
    /\ runs = <<>>

NextFilter ==
    \/ SetDateRangeDays
    \/ SetRangeFilter
    \/ NextDay

SpecFilter == InitFilter /\ [][NextFilter]_vars

InitShim ==
    /\ CacheWith({})
    /\ NoQueue
    /\ woo = NoCall
    /\ server = NoServer
    /\ Migrated
    /\ NoShim

NextShim ==
    \/ SetDateRange
    \/ NextDay

SpecShim == InitShim /\ [][NextShim]_vars

(***************************************************************************)
(* SpecImages: WooCommerceShim.upload_product_images on a cache that holds *)
(* picture rows and a specifics row                                        *)
(***************************************************************************)
\* the ids wordpress gives to uploaded media; no_image stands for an image
\* that was not downloaded or whose upload returned (None, None)
ImageIds == {3, 4}
no_image == 0
UploadOutcomes == {no_image} \cup ImageIds

\* the order of ORDER BY value on the picture URLs
UrlOrder == << <<"u1">>, <<"u2">> >>

\* the metadata rows the source sync may have stored, in the order stored
ImageCacheTriples ==
    <<[itemid |-> 1, key |-> "picture_url", value |-> <<"u1">>],
      [itemid |-> 1, key |-> "Brand", value |-> <<"x">>],
      [itemid |-> 1, key |-> "picture_url", value |-> <<"u2">>],
      [itemid |-> 2, key |-> "picture_url", value |-> <<"u1">>]>>

\* the table item_metadata after __store_key_value of each triple
RECURSIVE MetaCache(_)
MetaCache(triples) ==
    IF triples = <<>> THEN {}
    ELSE LET t == triples[Len(triples)]
         IN  store_key_value(MetaCache(SubSeq(triples, 1, Len(triples) - 1)),
                             t.itemid, t.key, t.value)

ImageMetaCaches ==
    {MetaCache(SelectSeq(ImageCacheTriples, LAMBDA t : t \in S)) :
        S \in SUBSET {ImageCacheTriples[k] : k \in 1..Len(ImageCacheTriples)}}

\* the table items: both items active; none, item 1 or both were uploaded
ImageItemCaches ==
    {QueueCacheRows,
     db_product_uploaded(QueueCacheRows, 1, 1),
     db_product_uploaded(db_product_uploaded(QueueCacheRows, 1, 1), 2, 2)}

\* db_get_product_image_urls: the picture rows of the item, ORDER BY value
db_get_product_image_urls(md, i) ==
    LET pictures == {m \in md : m.itemid = i /\ m.key = "picture_url"}
        present == SelectSeq(UrlOrder, LAMBDA u : \E m \in pictures : m.value = u)
    IN  [k \in 1..Len(present) |-> CHOOSE m \in pictures : m.value = present[k]]

\* download_product_images_from_ebay: the rows whose post_id is None
download_product_images_from_ebay(md, i) ==
    SelectSeq(db_get_product_image_urls(md, i), LAMBDA m : m.post_id = NULL)

\* the for loop of upload_product_images over the downloaded images:
\* outcome[k] is what upload_image_to_woocommerce returns for the k-th one
RECURSIVE UploadAll(_, _, _, _)
UploadAll(md, i, images, outcome) ==
    IF images = <<>> THEN md
    ELSE UploadAll(IF Head(outcome) # no_image
                   THEN db_metadata_uploaded(md, Head(outcome), i)
                   ELSE md,
                   i, Tail(images), Tail(outcome))

\* upload_product_images(item_id) on an item the cache holds; last.arg keeps
\* the ids of the rows selected for upload and the outcome of each upload
UploadProductImages ==
    \E i \in ItemIds :
        LET post_id == CHOOSE p \in db_woo_get_post_id(items, i) : TRUE
            images == IF post_id # None
                      THEN download_product_images_from_ebay(item_metadata, i)
                      ELSE <<>>
        IN  \E outcome \in [1..Len(images) -> UploadOutcomes] :
                /\ item_metadata' = UploadAll(item_metadata, i, images, outcome)
                /\ last' = [NoOp EXCEPT !.cmd = "upload_images", !.item = i,
                                        !.flag = post_id # None,
                                        !.calls = Len(images),
                                        !.arg = [selected |-> [k \in 1..Len(images) |-> images[k].id],
                                                 outcome |-> outcome]]
                /\ UNCHANGED <<items, ebayVars, today, otherVars>>

\* a cache with uploaded products and stored metadata, on day 1, and no
\* source command running
InitImages ==
    /\ items \in ImageItemCaches
    /\ item_metadata \in ImageMetaCaches
    /\ ebay_internals = [requests_today |-> 0, got_item_ids |-> <<>>,
                         got_seller_list_date |-> NULL]
    /\ today = 1
    /\ got_item_ids = <<>>
    /\ pagination = [total_items |-> 0, total_pages |-> 0,
                     received_items |-> 0, PageNumber |-> 0]
    /\ pc = "idle"
    /\ loop_index = 0
    /\ trace = NoTrace
    /\ last = NoOp
    /\ NoQueue
    /\ woo = NoCall
    /\ server = NoServer
    /\ Migrated
    /\ NoShim

NextImages == UploadProductImages

SpecImages == InitImages /\ [][NextImages]_vars

(***************************************************************************)
(* SpecCategory: WooCommerceShim.get_mapped_category_id on the mapping     *)
(* table that __init__ loaded                                              *)
(***************************************************************************)
MaxEntries == 3
EbayCategoryIds == {1, 2, 3}

\* the entries a mapping file may hold: 'wc-id', 'wc-name' (a str, here its
\* words) and 'ebay_ids' (a list)
MappingEntries ==
    {[wc_id |-> 10, wc_name |-> <<"Uncategorized">>, ebay_ids |-> <<>>],
     [wc_id |-> 11, wc_name |-> <<"Parts">>, ebay_ids |-> <<1>>],
     [wc_id |-> 12, wc_name |-> <<"Cables">>, ebay_ids |-> <<2, 1>>],
     [wc_id |-> 13, wc_name |-> <<"Uncategorized", "Parts">>, ebay_ids |-> <<2>>]}

\* the lists json.load may give: up to MaxEntries different entries
MappingTables ==
    {t \in UNION {[1..n -> MappingEntries] : n \in 0..MaxEntries} :
        \A j, k \in 1..Len(t) : j # k => t[j] # t[k]}

\* 'value in key[field]': membership in the list ebay_ids, substring of the
\* str wc-name
value_in(value, entry, field) ==
    IF field = "ebay_ids"
    THEN \E k \in 1..Len(entry.ebay_ids) : entry.ebay_ids[k] = value
    ELSE \E k \in 1..Len(entry.wc_name) : entry.wc_name[k] = value

\* the list comprehension of __search_map
search_matches(mapping, value, field) ==
    SelectSeq(mapping, LAMBDA key : value_in(value, key, field))

\* __search_map(value, field): mapped[0]['wc-id'], or on IndexError the
\* search for 'Uncategorized' in 'wc-name'; when that search finds nothing it
\* calls itself again with the same arguments until RecursionError is raised
FallbackGuarded(mapping, value, field) ==
    IF search_matches(mapping, value, field) # <<>>
    THEN [raised |-> "none", id |-> search_matches(mapping, value, field)[1].wc_id]
    ELSE IF search_matches(mapping, "Uncategorized", "wc-name") # <<>>
    THEN [raised |-> "none",
          id |-> search_matches(mapping, "Uncategorized", "wc-name")[1].wc_id]
    ELSE [raised |-> "none", id |-> 0]
search_map(mapping, value, field) ==
    IF search_matches(mapping, value, field) # <<>>
    THEN [raised |-> "none", id |-> search_matches(mapping, value, field)[1].wc_id]
    ELSE IF search_matches(mapping, "Uncategorized", "wc-name") # <<>>
    THEN [raised |-> "none",
          id |-> search_matches(mapping, "Uncategorized", "wc-name")[1].wc_id]
    ELSE [raised |-> "RecursionError", id |-> 0]

\* get_mapped_category_id(ebay_category_id): kind is the type returned
get_mapped_category_id(mapping, ebay_category_id) ==
    IF mapping # None
    THEN [kind |-> IF search_map(mapping[1], ebay_category_id, "ebay_ids").raised = "none"
                   THEN "int" ELSE "none",
          raised |-> search_map(mapping[1], ebay_category_id, "ebay_ids").raised,
          id |-> search_map(mapping[1], ebay_category_id, "ebay_ids").id]
    ELSE [kind |-> "None", raised |-> "none", id |-> 0]

GetMappedCategoryId ==
    \E c \in EbayCategoryIds :
        LET out == get_mapped_category_id(category_mapping, c)
        IN  /\ last' = [NoOp EXCEPT !.cmd = "get_mapped_category_id", !.item = c,
                                    !.kind = out.kind, !.raised = out.raised,
                                    !.id = out.id]
            /\ UNCHANGED <<cacheVars, ebayVars, today, otherVars>>

\* WooCommerceShim.__init__: the mapping file is absent or holds a table
InitCategory ==
    /\ CacheWith({})
    /\ NoQueue
    /\ woo = NoCall
    /\ server = NoServer
    /\ Migrated
    /\ remote = NoRemote
    /\ date_range = NoDateRange
    /\ category_mapping \in {None} \cup {Val(t) : t \in MappingTables}
    /\ seller_filter_dict = NoFilter
    /\ runs = <<>>

NextCategory == GetMappedCategoryId

SpecCategory == InitCategory /\ [][NextCategory]_vars

(***************************************************************************)
(* SpecChunks: WooCommerceShim.delete_all_products_in_range                *)
(***************************************************************************)
MaxRange == 5
ChunkSizes == {1, 2, 3}

\* the id_range argument: range(first, first + n) or a list in any order
IdRanges ==
    {[k \in 1..n |-> first + k - 1] : n \in 0..MaxRange, first \in {1, 7}}
        \cup {<<2, 1, 2>>, <<3, 3, 1, 2>>}

\* range(0, stop, step): 0, step, 2 * step, ... below stop
range_from_zero(stop, step) == [k \in 1..Ceil(stop, step) |-> (k - 1) * step]

\* iterable[i:j]: the elements at the indexes i .. j - 1 that exist
SliceOneShort(iterable, i, j) ==
    SubSeq(iterable, i + 1, IF j - 1 < Len(iterable) THEN j - 1 ELSE Len(iterable))
slice(iterable, i, j) ==
    SubSeq(iterable, i + 1, IF j < Len(iterable) THEN j ELSE Len(iterable))

\* __divide_into_chunks: iterable[i:i + chunk_size] for i in
\* range(0, len(iterable), chunk_size)
divide_into_chunks(iterable, chunk_size) ==
    [k \in 1..Len(range_from_zero(Len(iterable), chunk_size)) |->
        slice(iterable, range_from_zero(Len(iterable), chunk_size)[k],
              range_from_zero(Len(iterable), chunk_size)[k] + chunk_size)]

\* what the first statement of delete_all_products_in_range raises:
\* id_range[0] of an empty id_range
range_bounds_raise(id_range) ==
    IF id_range = <<>> THEN "IndexError" ELSE "none"

\* delete_all_products_in_range(id_range, chunk_size); timeout_at is the
\* bulk request that times out (0: none does). last.arg keeps the arguments
\* and the 'delete' lists of the requests sent to products/batch
DeleteAllProductsInRange ==
    \E id_range \in IdRanges, chunk_size \in ChunkSizes :
        LET chunks == divide_into_chunks(id_range, chunk_size)
        IN  \E timeout_at \in 0..Len(chunks) :
                LET raised == IF range_bounds_raise(id_range) # "none"
                              THEN range_bounds_raise(id_range)
                              ELSE IF timeout_at # 0 THEN "Timeout" ELSE "none"
                    posted == IF raised = "IndexError" THEN <<>>
                              ELSE IF raised = "Timeout" THEN SubSeq(chunks, 1, timeout_at)
                              ELSE chunks
                IN  /\ last' = [NoOp EXCEPT !.cmd = "delete_all_products",
                                            !.calls = Len(posted),
                                            !.raised = raised,
                                            !.arg = [id_range |-> id_range,
                                                     chunk_size |-> chunk_size,
                                                     posted |-> posted]]
                    /\ UNCHANGED <<cacheVars, ebayVars, today, otherVars>>

InitChunks ==
    /\ CacheWith({})
    /\ NoQueue
    /\ woo = NoCall
    /\ server = NoServer
    /\ Migrated
    /\ NoShim

NextChunks == DeleteAllProductsInRange

SpecChunks == InitChunks /\ [][NextChunks]_vars

(***************************************************************************)
(* SpecRace: two processes, each with its own EbayShim object, run         *)
(* get_item_metadata on one cache file. The connection is opened with      *)
(* isolation_level=None, so every statement is a transaction of its own    *)
(* and the statements of the two processes interleave                      *)
(***************************************************************************)
RunIds == {1, 2}

\* the cache the two processes share: three active items not yet uploaded
RaceCacheRows ==
    {ItemRow([ItemID |-> i, ListingStatus |-> "Active", Quantity |-> 1,
              QuantitySold |-> 0, Title |-> "t1", EndTime |-> 2]) : i \in {1, 2, 3}}

\* a process before get_item_metadata: its object holds the list that
\* EbayShim.__init__ loaded; requests is the local of
\* db_ebay_increment_request_counter, item_id the loop variable
RunAt(got) ==
    [pc |-> "loop", got_item_ids |-> got, loop_index |-> 0, item_id |-> 0,
     requests |-> 0]

\* the UPDATE of db_ebay_increment_request_counter: the value read before,
\* plus one
UpdateFromStoredValue(internals, requests) ==
    [internals EXCEPT !.requests_today = @ + 1]
update_request_counter(internals, requests) ==
    [internals EXCEPT !.requests_today = requests + 1]

\* the checkpoint is written: last keeps the writer, the writer before it
\* and the list that was replaced
CheckpointWritten(r, ids) ==
    /\ ebay_internals' = db_ebay_store_got_item_ids(ebay_internals, ids)
    /\ last' = [NoOp EXCEPT !.cmd = "db_ebay_store_got_item_ids",
                            !.item = r,
                            !.id = IF last.cmd = "db_ebay_store_got_item_ids"
                                   THEN last.item ELSE 0,
                            !.arg = ebay_internals.got_item_ids]

\* one round of the for loop up to the request: the element is removed and
\* db_ebay_get_request_counter() is compared with the rate limit
RunRound(r) ==
    /\ runs[r].pc = "loop"
    /\ runs[r].loop_index < Len(runs[r].got_item_ids)
    /\ LET item_id == runs[r].got_item_ids[runs[r].loop_index + 1]
           remaining == ListRemove(runs[r].got_item_ids, item_id)
       IN  runs' = [runs EXCEPT ![r].got_item_ids = remaining,
                                ![r].item_id = item_id,
                                ![r].pc = IF ebay_internals.requests_today >= RateLimit
                                          THEN "store_got_item_ids" ELSE "GetItem"]
    /\ UNCHANGED <<cacheVars, ebayVars, today, last, queueVars, woo, server, migrateVars,
                   remote, date_range, category_mapping, seller_filter_dict>>

\* the budget was found used up: db_ebay_store_got_item_ids(got_item_ids), break
RunStoreCheckpoint(r) ==
    /\ runs[r].pc = "store_got_item_ids"
    /\ CheckpointWritten(r, runs[r].got_item_ids)
    /\ runs' = [runs EXCEPT ![r].pc = "after_loop"]
    /\ UNCHANGED <<cacheVars, got_item_ids, pagination, pc, loop_index, trace, today,
                   queueVars, woo, server, migrateVars,
                   remote, date_range, category_mapping, seller_filter_dict>>

\* self.ebay.execute('GetItem', ...): trace.requests counts the requests
\* the two processes sent
RunGetItem(r) ==
    /\ runs[r].pc = "GetItem"
    /\ trace' = [trace EXCEPT !.requests = trace.requests + 1,
                              !.fetched = Append(trace.fetched, runs[r].item_id)]
    /\ runs' = [runs EXCEPT ![r].pc = "get_request_counter"]
    /\ UNCHANGED <<cacheVars, ebay_internals, got_item_ids, pagination, pc, loop_index,
                   today, last, queueVars, woo, server, migrateVars,
                   remote, date_range, category_mapping, seller_filter_dict>>

\* db_ebay_increment_request_counter, its SELECT
RunGetRequestCounter(r) ==
    /\ runs[r].pc = "get_request_counter"
    /\ runs' = [runs EXCEPT ![r].requests = ebay_internals.requests_today,
                            ![r].pc = "update_request_counter"]
    /\ UNCHANGED <<cacheVars, ebayVars, today, last, queueVars, woo, server, migrateVars,
                   remote, date_range, category_mapping, seller_filter_dict>>

\* db_ebay_increment_request_counter, its UPDATE
RunUpdateRequestCounter(r) ==
    /\ runs[r].pc = "update_request_counter"
    /\ ebay_internals' = update_request_counter(ebay_internals, runs[r].requests)
    /\ runs' = [runs EXCEPT ![r].pc = "store_item_metadata"]
    /\ UNCHANGED <<cacheVars, got_item_ids, pagination, pc, loop_index, trace, today,
                   last, queueVars, woo, server, migrateVars,
                   remote, date_range, category_mapping, seller_filter_dict>>

\* db_store_item_metadata_from_ebay(result), then the iterator moves on
RunStoreItemMetadata(r) ==
    /\ runs[r].pc = "store_item_metadata"
    /\ item_metadata' = db_store_item_metadata_from_ebay(
                            item_metadata, runs[r].item_id, ListingPictures,
                            ListingSpecifics).metadata
    /\ runs' = [runs EXCEPT ![r].loop_index = @ + 1, ![r].pc = "loop"]
    /\ UNCHANGED <<items, ebayVars, today, last, queueVars, woo, server, migrateVars,
                   remote, date_range, category_mapping, seller_filter_dict>>

\* the list iterator is exhausted
RunLoopEnds(r) ==
    /\ runs[r].pc = "loop"
    /\ runs[r].loop_index >= Len(runs[r].got_item_ids)
    /\ runs' = [runs EXCEPT ![r].pc = "after_loop"]
    /\ UNCHANGED <<cacheVars, ebayVars, today, last, queueVars, woo, server, migrateVars,
                   remote, date_range, category_mapping, seller_filter_dict>>

\* after the loop: if self.got_item_ids: db_ebay_store_got_item_ids([])
RunAfterLoop(r) ==
    /\ runs[r].pc = "after_loop"
    /\ IF runs[r].got_item_ids # <<>>
       THEN CheckpointWritten(r, <<>>)
       ELSE UNCHANGED <<ebay_internals, last>>
    /\ runs' = [runs EXCEPT ![r].pc = "done"]
    /\ UNCHANGED <<cacheVars, got_item_ids, pagination, pc, loop_index, trace, today,
                   queueVars, woo, server, migrateVars,
                   remote, date_range, category_mapping, seller_filter_dict>>

\* both objects were constructed on the cache, which holds no checkpoint,
\* before either process called get_item_metadata; trace.requests starts
\* at the requests the counter holds
InitRace ==
    /\ items = RaceCacheRows
    /\ item_metadata = {}
    /\ \E n \in 0..RateLimit :
          /\ ebay_internals = [requests_today |-> n, got_item_ids |-> <<>>,
                               got_seller_list_date |-> Val(1)]
          /\ trace = [NoTrace EXCEPT !.cmd = "get_item_metadata", !.requests = n]
    /\ today = 1
    /\ got_item_ids = <<>>
    /\ pagination = [total_items |-> 0, total_pages |-> 0,
                     received_items |-> 0, PageNumber |-> 0]
    /\ pc = "idle"
    /\ loop_index = 0
    /\ last = NoOp
    /\ NoQueue
    /\ woo = NoCall
    /\ server = NoServer
    /\ Migrated
    /\ remote = NoRemote
    /\ date_range = NoDateRange
    /\ category_mapping = NULL
    /\ seller_filter_dict = NoFilter
    /\ runs = [r \in RunIds |->
                  RunAt(db_ebay_get_got_item_ids(ebay_internals, items))]

Run(r) ==
    \/ RunRound(r)
    \/ RunStoreCheckpoint(r)
    \/ RunGetItem(r)
    \/ RunGetRequestCounter(r)
    \/ RunUpdateRequestCounter(r)
    \/ RunStoreItemMetadata(r)
    \/ RunLoopEnds(r)
    \/ RunAfterLoop(r)

NextRace == \E r \in RunIds : Run(r)

SpecRace == InitRace /\ [][NextRace]_vars

(***************************************************************************)
(* SpecDownload: an EbayDownloadQueue (bin/shim/queue.py), the thread that *)
(* runs start() and its worker threads, each with an EbayShim object of    *)
(* its own (runs[w]) on the one cache                                      *)
(***************************************************************************)
\* a worker thread that has not run its first statement
NotConstructed ==
    [pc |-> "init", got_item_ids |-> <<>>, loop_index |-> 0, item_id |-> 0,
     requests |-> 0, command |-> "none", pull |-> "none", works_on |-> <<>>]

\* the page the marketplace serves for the window of the download queue
DownloadPage == <<Listing(1, "Active"), Listing(2, "Active")>>

\* EbayDownloadQueue.__init__ up to self.start()
InitDownload ==
    /\ \E its \in QueueCaches : CacheWith(its)
    /\ item_ids = <<>>
    /\ queue = <<Val("get_seller_list"), Val("get_item_metadata")>>
    /\ unfinished_tasks = 2
    /\ workers \in 1..MaxWorkers
    /\ threads = <<>>
    /\ producer = [pc |-> "start_threads", index |-> 0]
    /\ processed = [i \in ItemIds |-> 0]
    /\ woo = NoCall
    /\ server = NoServer
    /\ Migrated
    /\ remote = NoRemote
    /\ date_range = NoDateRange
    /\ category_mapping = NULL
    /\ seller_filter_dict = NoFilter
    /\ runs = [w \in 1..workers |-> NotConstructed]

\* worker: api = EbayShim(), then
\* api.set_date_range(start_date='', days=35, range_type='End').set_range_filter()
DownloadWorkerInit(w) ==
    /\ runs[w].pc = "init"
    /\ runs' = [runs EXCEPT ![w].pc = "get",
                            ![w].got_item_ids =
                                db_ebay_get_got_item_ids(ebay_internals, items)]
    /\ LET range == set_date_range([t |-> "unparsable", v |-> 0], 35,
                                   [t |-> "None", v |-> 0], "End", today)
       IN  /\ date_range' = range
           /\ seller_filter_dict' =
                  set_range_filter(seller_filter_dict, range).seller_filter_dict
    /\ UNCHANGED <<cacheVars, ebayVars, today, last, queueVars, woo, server, migrateVars,
                   remote, category_mapping>>

\* worker: command = self.queue.get(); None ends the loop
DownloadWorkerGet(w) ==
    /\ runs[w].pc = "get"
    /\ queue # <<>>
    /\ queue' = Tail(queue)
    /\ IF Head(queue) = None
       THEN /\ runs' = [runs EXCEPT ![w].pc = "exited"]
            /\ threads' = [threads EXCEPT ![w].pc = "exited", ![w].sentinels = @ + 1]
       ELSE /\ runs' = [runs EXCEPT ![w].pc = "try_command",
                                    ![w].command = Head(queue)[1]]
            /\ UNCHANGED threads
    /\ UNCHANGED <<cacheVars, ebayVars, today, last, item_ids, unfinished_tasks, workers,
                   producer, processed, woo, server, migrateVars,
                   remote, date_range, category_mapping, seller_filter_dict>>

\* api.try_command(command) up to the first request: the same-day guard of
\* get_seller_list, or get_item_metadata up to its for loop. trace.outcome
\* is the state of the listing pull; works_on and pull keep the list
\* get_item_metadata starts with and the state of the pull at that moment
DownloadTryCommand(w) ==
    /\ runs[w].pc = "try_command"
    /\ IF runs[w].command = "get_seller_list"
       THEN LET guard == db_ebay_got_seller_list_date(ebay_internals, today)
            IN  /\ ebay_internals' = guard.internals
                /\ runs' = [runs EXCEPT ![w].pc = IF guard.passed THEN "get_seller_list"
                                                  ELSE "task_done"]
                /\ trace' = [trace EXCEPT !.cmd = "get_seller_list",
                                          !.outcome = IF guard.passed THEN "running"
                                                      ELSE "refused",
                                          !.ran_on = today]
       ELSE LET pending == IF runs[w].got_item_ids = <<>>
                           THEN db_get_active_item_ids(items)
                           ELSE runs[w].got_item_ids
            IN  /\ runs' = [runs EXCEPT ![w].pc = "loop",
                                        ![w].got_item_ids = pending,
                                        ![w].loop_index = 0,
                                        ![w].pull = trace.outcome,
                                        ![w].works_on = pending]
                /\ UNCHANGED <<ebay_internals, trace>>
    /\ UNCHANGED <<cacheVars, got_item_ids, pagination, pc, loop_index, today, last,
                   queueVars, woo, server, migrateVars,
                   remote, date_range, category_mapping, seller_filter_dict>>

\* get_seller_list(): at the rate limit it returns None and the
\* AttributeError of try_command ends the thread; otherwise the one page of
\* the window is stored and its active ids are appended to the object's
\* list. trace.start keeps the active ids of the page
DownloadGetSellerList(w) ==
    /\ runs[w].pc = "get_seller_list"
    /\ IF ebay_internals.requests_today >= RateLimit
       THEN /\ runs' = [runs EXCEPT ![w].pc = "raised"]
            /\ threads' = [threads EXCEPT ![w].pc = "raised",
                                          ![w].raised = "AttributeError"]
            /\ trace' = [trace EXCEPT !.outcome = "AttributeError"]
            /\ UNCHANGED <<cacheVars, ebay_internals>>
       ELSE LET stored == StorePage(items, item_metadata, runs[w].got_item_ids,
                                    DownloadPage)
            IN  /\ ebay_internals' = db_ebay_increment_request_counter(ebay_internals)
                /\ items' = stored.items
                /\ item_metadata' = stored.metadata
                /\ runs' = [runs EXCEPT ![w].got_item_ids = stored.got_item_ids,
                                        ![w].pc = "task_done"]
                /\ trace' = [trace EXCEPT
                                !.outcome = "completed",
                                !.start = [k \in 1..Len(DownloadPage) |->
                                               DownloadPage[k].ItemID]]
                /\ UNCHANGED threads
    /\ UNCHANGED <<got_item_ids, pagination, pc, loop_index, today, last,
                   item_ids, queue, unfinished_tasks, workers, producer, processed,
                   woo, server, migrateVars,
                   remote, date_range, category_mapping, seller_filter_dict>>

\* worker: self.queue.task_done(), after try_command returned
DownloadTaskDone(w) ==
    /\ runs[w].pc \in {"task_done", "done"}
    /\ unfinished_tasks' = unfinished_tasks - 1
    /\ runs' = [runs EXCEPT ![w].pc = "get"]
    /\ UNCHANGED <<cacheVars, ebayVars, today, last, item_ids, queue, workers, threads,
                   producer, processed, woo, server, migrateVars,
                   remote, date_range, category_mapping, seller_filter_dict>>

\* EbayDownloadQueue.worker, run by thread w
DownloadWorker(w) ==
    /\ w \in 1..Len(threads)
    /\ \/ DownloadWorkerInit(w)
       \/ DownloadWorkerGet(w)
       \/ DownloadTryCommand(w)
       \/ DownloadGetSellerList(w)
       \/ Run(w)
       \/ DownloadTaskDone(w)

NextDownload ==
    \/ Producer
    \/ \E w \in 1..MaxWorkers : DownloadWorker(w)

SpecDownload == InitDownload /\ [][NextDownload]_vars

(***************************************************************************)
(* SpecPull: try_command('get_seller_list') alone, against a marketplace   *)
(* that answers each request with any response, a timeout or a connection  *)
(* error                                                                   *)
(***************************************************************************)
\* the steps of a running try_command('get_seller_list')
PullStep ==
    \/ GetSellerListRateLimited
    \/ GetSellerListConnectionError
    \/ GetSellerListTimeout
    \/ GetSellerListPage

\* the clock passes midnight between two commands
NextDayWhenIdle == pc = "idle" /\ NextDay

NextPull ==
    \/ Restart
    \/ NextDayWhenIdle
    \/ TryCommandGetSellerList
    \/ PullStep

SpecPull == Init /\ [][NextPull]_vars

\* a request that was sent is answered, times out or fails, and the caller
\* goes on
SpecPullFair == SpecPull /\ WF_vars(PullStep)

(***************************************************************************)
(* Properties of the cache and of the destination operations (Spec)        *)
(***************************************************************************)
HasPostId(its, i) == \E r \in its : r.itemid = i /\ r.post_id # NULL

\* C1: an item whose post_id was set to a non-null value still has a non-null
\* post_id after every operation (source pull, create_product,
\* delete_product): no operation clears it.
C1_PostIdNeverCleared ==
    [][\A i \in ItemIds : HasPostId(items, i) => HasPostId(items', i)]_vars

\* C2: after db_store_item_from_ebay(item) there is exactly one row with the
\* item's id and its source-supplied columns are the values just stored, also
\* when a row with other values was there before.
C2_UpsertOverwrites ==
    last.cmd = "store_item" =>
        /\ Cardinality(RowsOf(items, last.item)) = 1
        /\ \A r \in RowsOf(items, last.item) :
              /\ r.itemid = last.arg.ItemID
              /\ r.active = last.arg.ListingStatus
              /\ r.available_quantity = last.arg.Quantity - last.arg.QuantitySold
              /\ r.title = last.arg.Title
              /\ r.end_date = last.arg.EndTime

\* an item was stored over a row that held other values
C2_Witness ==
    /\ last.cmd = "store_item"
    /\ last.flag
    /\ Cardinality(RowsOf(items, last.item)) = 1

C5_InactiveIdsUploaded ==
    last.cmd = "db_get_inactive_uploaded_item_ids" =>
        \A i \in SeqToSet(last.arg) :
            \E r \in RowsOf(items, i) :
                /\ r.post_id # NULL
                /\ (r.active # "Active" \/ EndDatePassed(r, today))

C7_DuplicateSkuAdopted ==
    /\ (last.cmd = "create_product" /\ last.kind = "product_invalid_sku"
            /\ last.id # 0) =>
          \A r \in RowsOf(items, last.item) : r.post_id = Val(last.id)
    /\ \A i \in ItemIds, R \in PostIds :
          create_product(items, i, [kind |-> "product_invalid_sku", id |-> R]).items
            = create_product(items, i, [kind |-> "created", id |-> R]).items

\* the destination rejected a create as duplicate sku and named a resource id
C7_Witness ==
    /\ last.cmd = "create_product"
    /\ last.kind = "product_invalid_sku"
    /\ last.id # 0
    /\ \E r \in RowsOf(items, last.item) : r.post_id = Val(last.id)

(***************************************************************************)
(* Properties of the metadata table (SpecMeta)                             *)
(***************************************************************************)
MetaKeys == {"picture_url"} \cup SpecificNames
MetaValues == {m.value : m \in item_metadata}

\* C3: storing an identical (item_id, key, value) triple two or more times,
\* in one call or across calls, leaves exactly one row with that triple.
C3_MetadataInsertIdempotent ==
    /\ \A i \in MetaItemIds, k \in MetaKeys, v \in MetaValues :
          Cardinality(MetaTriples(item_metadata, i, k, v)) <= 1
    /\ last.cmd = "store_metadata" =>
          \A kv \in last.arg :
              Cardinality(MetaTriples(item_metadata, last.item, kv[1], kv[2])) = 1

\* a triple was stored that was already in the table, or twice in one call
C3_Witness ==
    /\ last.cmd = "store_metadata"
    /\ last.flag
    /\ \E kv \in last.arg :
          Cardinality(MetaTriples(item_metadata, last.item, kv[1], kv[2])) = 1

(***************************************************************************)
(* Properties of the source sync (SpecEbay)                                *)
(***************************************************************************)
\* how often x occurs in the list s
Count(s, x) == Cardinality({k \in 1..Len(s) : s[k] = x})

\* C8: when get_item_metadata found the request counter at the rate limit
\* while ids were pending, the persisted got_item_ids checkpoint holds, when
\* it returns, exactly the pending ids that were not fetched: every id of the
\* pending list was fetched in this invocation or is in the checkpoint.
C8_RateLimitKeepsPending ==
    (pc = "idle" /\ trace.cmd = "get_item_metadata" /\ trace.limited
        /\ ~trace.retried) =>
        /\ \A i \in SeqToSet(trace.start) :
              \/ i \in SeqToSet(trace.fetched)
              \/ i \in SeqToSet(ebay_internals.got_item_ids)
        /\ \A i \in SeqToSet(ebay_internals.got_item_ids) :
              i \in SeqToSet(trace.start) /\ i \notin SeqToSet(trace.fetched)

\* C9: when get_item_metadata worked through its pending list without the
\* budget being used up, every id of the list was fetched exactly once and
\* the persisted got_item_ids checkpoint is the empty list.
C9_CompleteListFetchedOnce ==
    (pc = "idle" /\ trace.cmd = "get_item_metadata" /\ trace.outcome = "completed"
        /\ ~trace.limited /\ ~trace.retried) =>
        /\ \A i \in SeqToSet(trace.start) : Count(trace.fetched, i) = 1
        /\ ebay_internals.got_item_ids = <<>>

\* C10: once try_command('get_seller_list') has run on a day, every further
\* try_command('get_seller_list') on that day (a call of the caller or the
\* call try_command makes after a timeout) is refused: no request follows it
\* and items, metadata and the request counter stay as they are.
C10_SecondPullRefused ==
    [][((TryCommandGetSellerList \/ GetSellerListTimeout) /\ trace.ran_on = today) =>
          /\ pc' = "idle"
          /\ trace'.outcome = "refused"
          /\ items' = items
          /\ item_metadata' = item_metadata
          /\ ebay_internals'.requests_today = ebay_internals.requests_today]_vars

\* the caller asked for the listing pull again on the day of a pull that had
\* stored items, and was refused
C10_Witness ==
    /\ pc = "idle"
    /\ trace.cmd = "get_seller_list"
    /\ trace.outcome = "refused"
    /\ ~trace.retried
    /\ trace.requests = 0
    /\ items # {}
    /\ ebay_internals.got_seller_list_date = Val(today)


\* C13: in EbayShim.try_command a read-timeout triggers exactly one retry: a
\* timeout in the retried attempt is not retried again, so one call of
\* try_command makes at most two attempts of the command.
C13_TimeoutOnRetryEnds ==
    [][((ItemMetadataTimeout \/ GetSellerListTimeout) /\ trace.retried) =>
          pc' = "idle"]_vars

\* C18: reading an item that is not in the cache, or that the read filters
\* out (a row with available_quantity 0), returns an empty or absent result
\* and never raises.
C18_MissingReadNeverRaises ==
    last.cmd \in {"db_get_product_data", "db_woo_get_post_id"} =>
        last.raised = "none"

(***************************************************************************)
(* Properties of the queue (SpecQueue)                                     *)
(***************************************************************************)
\* every entry of the queue was acknowledged, each id as often as it was put
AllAcknowledged == \A i \in ItemIds : processed[i] = Count(item_ids, i)

\* C11: with K ids on the queue and W >= 1 workers, start() returns only
\* after every id was processed and acknowledged, each entry exactly once; the
\* sentinels are put only after all K acknowledgements, each worker consumes
\* exactly one sentinel and all W threads are joined.
C11_DrainProcessesEachOnce ==
    /\ \A i \in ItemIds : processed[i] <= Count(item_ids, i)
    /\ \A w \in 1..Len(threads) : threads[w].sentinels <= 1
    /\ (\/ \E k \in 1..Len(queue) : queue[k] = None
        \/ \E w \in 1..Len(threads) : threads[w].sentinels > 0) => AllAcknowledged
    /\ producer.pc = "returned" =>
          /\ AllAcknowledged
          /\ Len(threads) = workers
          /\ \A w \in 1..workers :
                threads[w].pc = "exited" /\ threads[w].sentinels = 1

\* start() returned for three entries, one id twice, and two workers
C11_Witness ==
    /\ producer.pc = "returned"
    /\ workers = 2
    /\ item_ids = <<1, 2, 1>>
    /\ processed[1] = 2

\* C12: under fair scheduling the sentinels are eventually delivered, every
\* worker blocked on queue.get eventually leaves its loop and start()
\* eventually returns, whatever the per-item operation does.
C12_StartEventuallyReturns == <>(producer.pc = "returned")


\* C17: no remote-call failure (timeout, connection error, unexpected
\* response shape) escapes to end a worker thread or the process: a worker
\* thread is never ended by the timeout of a destination request.
C17_NoRemoteFailureEndsWorker ==
    \A w \in 1..Len(threads) :
        ~(threads[w].pc = "raised" /\ threads[w].raised \in WooTimeouts)

(***************************************************************************)
(* Properties of the dispatch (SpecDispatch)                               *)
(***************************************************************************)
\* C14: in WooCommerceShim.try_command a timeout-class error triggers exactly
\* one retry of the same command with the same argument; a timeout on the
\* retry is not retried again, and every other error propagates.
C14_AtMostTwoAttempts == woo.attempts <= 2

\* C15: try_command of either shim fails closed for a name outside its
\* allow-list: it raises NameError and performs no operation, no remote call
\* and no cache write.
C15_UnrecognizedFailsClosed ==
    [][/\ (WooTryCommand /\ woo'.command \notin WooAvailableCommands) =>
            /\ woo'.raised = "NameError"
            /\ woo'.pc = "idle"
            /\ woo'.calls = 0 /\ woo'.attempts = 0
            /\ UNCHANGED <<cacheVars, ebay_internals>>
       /\ TryCommandUnrecognized =>
            /\ trace'.outcome = "NameError"
            /\ trace'.requests = 0
            /\ pc' = "idle"
            /\ UNCHANGED <<cacheVars, ebay_internals, got_item_ids>>]_vars

\* a name outside the allow-list was refused by each shim on a filled cache
C15_Witness ==
    /\ items # {}
    /\ woo.command = "set_featured_image"
    /\ woo.raised = "NameError"
    /\ trace.cmd \in EbayUnrecognizedNames
    /\ trace.outcome = "NameError"


C19_MigrationsRunOnce ==
    [][/\ \A m \in 1..LastMigration : startup'.ran[m] <= 1
       /\ schema'.user_version >= schema.user_version
       /\ startup'.pc # "raised"]_vars

\* C20: after the first Database construction on an empty cache file the
\* stored version is the number of the last migration (3), so the next
\* startup finds no migration to apply.
C20_NewInstallationAtLatest ==
    (startup.from = 0 /\ startup.count = 1 /\ startup.pc = "done") =>
        /\ schema.user_version = LastMigration
        /\ migrate_query(schema.user_version) = <<>>

(***************************************************************************)
(* Properties of the listing pull from a paging marketplace (SpecPage)     *)
(***************************************************************************)
\* the pages 1, 2, ..., n
PagesUpTo(n) == [k \in 1..n |-> k]

\* the number of requests that fetch every listing of the marketplace r
RequestsFor(r) ==
    IF r.TotalNumberOfEntries = 0 THEN 1
    ELSE Ceil(r.TotalNumberOfEntries, r.EntriesPerPage)

\* C21: a listing pull that ended because the received count reached the
\* total sent exactly max(1, ceil(T / P)) requests, for the pages 1, 2, ...
\* in this order, each page once
C21_PullRequestsEachPageOnce ==
    (trace.cmd = "get_seller_list" /\ trace.outcome = "completed")
        => trace.fetched = PagesUpTo(RequestsFor(remote))

\* C30: when a listing pull ended because the received count reached the
\* total, the next pull of the same EbayShim object starts with the cursor
\* ahead of page 1 and with no item counted as received
C30_NextPullStartsAtPageOne ==
    [][(trace.cmd = "get_seller_list" /\ trace.outcome = "completed"
            /\ pc' = "get_seller_list")
        => (/\ update_pagination(pagination').PageNumber = 1
            /\ update_pagination(pagination').received_items = 0)]_vars

\* C27: a listing pull that found the request counter at the rate limit
\* returned to its caller without an exception
C27_RateLimitReturnsNormally ==
    (trace.cmd = "get_seller_list" /\ trace.limited)
        => trace.outcome \notin {"AttributeError", "ConnectionError", "NameError"}

(***************************************************************************)
(* Properties of the methods of SpecShim                                   *)
(***************************************************************************)
\* set_date_range was called with no stop date
DaysGiven == last.cmd = "set_date_range" /\ last.arg.stop_date.t = "None"

\* the instant a string of date_range names, in milliseconds
Instant(str) ==
    ((((((str[1] - 1) * DaysPerMonth + (str[2] - 1)) * 24 + str[3]) * 60
        + str[4]) * 60 + str[5]) * 1000) + str[6]

\* C22: with start date D, no stop date and days N, the window is from D at
\* 00:00:00.000Z to D+N at 23:59:59.999Z when N > 0, from D+N at
\* 23:59:59.999Z to D at 00:00:00.000Z when N < 0, and from is never after to
C22_WindowOrdered ==
    DaysGiven =>
        LET D == last.arg.start_date
            N == last.arg.days
        IN  /\ N > 0 => /\ date_range.from = <<MonthOf(D), DayOfMonth(D), 0, 0, 0, 0>>
                        /\ date_range.to = <<MonthOf(D + N), DayOfMonth(D + N), 23, 59, 59, 999>>
            /\ N < 0 => /\ date_range.from = <<MonthOf(D + N), DayOfMonth(D + N), 23, 59, 59, 999>>
                        /\ date_range.to = <<MonthOf(D), DayOfMonth(D), 0, 0, 0, 0>>
            /\ Instant(date_range.from) <= Instant(date_range.to)

\* a window was set from a negative number of days that crosses a month
C22_Witness ==
    /\ DaysGiven
    /\ last.arg.days < 0
    /\ date_range.from[1] < date_range.to[1]
    /\ date_range.from[3] = 23

(***************************************************************************)
(* Properties of the image upload (SpecImages)                             *)
(***************************************************************************)
\* the image id the upload step recorded for the metadata row with this id,
\* or no_image when the row was not uploaded by the step
UploadedAs(arg, id) ==
    IF \E k \in 1..Len(arg.selected) : arg.selected[k] = id /\ arg.outcome[k] # no_image
    THEN arg.outcome[CHOOSE k \in 1..Len(arg.selected) :
                         arg.selected[k] = id /\ arg.outcome[k] # no_image]
    ELSE no_image

\* C23: upload_images gives the image id to the metadata row of each image it
\* uploaded and leaves the post_id of every other metadata row as it was
C23_UploadMarksOnlyThatImage ==
    [][last'.cmd = "upload_images" =>
        \A m \in item_metadata : \E n \in item_metadata' :
            /\ n.id = m.id
            /\ n.post_id = IF UploadedAs(last'.arg, m.id) # no_image
                           THEN Val(UploadedAs(last'.arg, m.id))
                           ELSE m.post_id]_vars

(***************************************************************************)
(* Properties of the category mapping (SpecCategory)                       *)
(***************************************************************************)
\* the positions of the table whose ebay_ids hold the category c
MatchingEntries(t, c) ==
    {k \in 1..Len(t) : \E j \in 1..Len(t[k].ebay_ids) : t[k].ebay_ids[j] = c}

\* C24: get_mapped_category_id returns None without a table; with a table
\* it returns the wc-id of the first entry whose ebay_ids hold the category,
\* and the wc-id of the entry named 'Uncategorized' when no entry holds it
C24_MappedCategory ==
    last.cmd = "get_mapped_category_id" =>
        IF category_mapping = None THEN last.kind = "None"
        ELSE LET t == category_mapping[1]
                 hits == MatchingEntries(t, last.item)
             IN  /\ last.kind = "int"
                 /\ IF hits # {}
                    THEN last.id = t[CHOOSE k \in hits : \A j \in hits : k <= j].wc_id
                    ELSE \E k \in 1..Len(t) : /\ t[k].wc_name = <<"Uncategorized">>
                                              /\ last.id = t[k].wc_id

(***************************************************************************)
(* Properties of the bulk delete (SpecChunks)                              *)
(***************************************************************************)
\* the lists of a sequence of lists, one after the other
RECURSIVE Flatten(_)
Flatten(lists) ==
    IF lists = <<>> THEN <<>> ELSE Head(lists) \o Flatten(Tail(lists))

C26_PulledItemsAreUploaded ==
    [][(server.phase = "ebay_download_products"
            /\ server'.phase = "update_mysql_database")
        => \A k \in 1..Len(db_get_active_item_ids(items')) :
               \E j \in 1..Len(server'.active_item_ids) :
                   server'.active_item_ids[j] = db_get_active_item_ids(items')[k]]_vars

\* the listings of the page that the last request of the pull asked for
LastServedPage == RemotePage(remote, trace.fetched[Len(trace.fetched)])

\* C28: after a listing page was handled, the cache holds a row and the
\* picture URL of every listing of the page, active or not, and every id
\* the pending list holds is the id of an active item
C28_PageStoredWithMetadata ==
    (trace.cmd = "get_seller_list" /\ trace.fetched # <<>>) =>
        /\ \A k \in 1..Len(LastServedPage) :
               /\ RowsOf(items, LastServedPage[k].ItemID) # {}
               /\ \A c \in SeqToSet(PictureCalls(ListingPictures)) :
                      MetaTriples(item_metadata, LastServedPage[k].ItemID, c[1], c[2]) # {}
        /\ \A k \in 1..Len(got_item_ids) :
               \E r \in RowsOf(items, got_item_ids[k]) : r.active = "Active"

(***************************************************************************)
(* Properties of the metadata extraction (SpecMeta)                        *)
(***************************************************************************)
\* C29: on every table, a lone PictureURL string is stored as the list of that
\* one string is, and a lone NameValueList object is stored as the list of
\* that one object is, a multi-valued Value joined in both forms, and the
\* lone form raises nothing
C29_SingleFormStoredAsList ==
    \A i \in MetaItemIds :
        /\ \A u \in Urls :
               db_store_item_metadata_from_ebay(
                   item_metadata, i, [t |-> "str", v |-> u], [t |-> "absent", v |-> <<>>])
               = db_store_item_metadata_from_ebay(
                   item_metadata, i, [t |-> "list", v |-> <<u>>], [t |-> "absent", v |-> <<>>])
        /\ \A nv \in NameValues :
               LET one == db_store_item_metadata_from_ebay(
                              item_metadata, i, [t |-> "absent", v |-> <<>>],
                              [t |-> "dict", v |-> <<nv>>])
                   many == db_store_item_metadata_from_ebay(
                               item_metadata, i, [t |-> "absent", v |-> <<>>],
                               [t |-> "list", v |-> <<nv>>])
               IN  one.raised = "none" /\ one.metadata = many.metadata

(***************************************************************************)
(* Properties of set_range_filter (SpecFilter)                             *)
(***************************************************************************)
\* the entries of a filter under the keys of K
EntriesUnder(the_dict, K) ==
    {<<k, the_dict[k]>> : k \in DOMAIN the_dict \cap K}

C32_GuardPassesAndResets ==
    [][TryCommandGetSellerList =>
          LET stored == ebay_internals.got_seller_list_date
              due == stored = NULL \/ stored[1] < today
          IN  /\ (pc' = "get_seller_list") <=> due
              /\ due => /\ ebay_internals'.got_seller_list_date = Val(today)
                        /\ ebay_internals'.requests_today = 0
              /\ ~due => /\ pc' = "idle"
                         /\ ebay_internals'.got_seller_list_date = stored
                         /\ ebay_internals'.requests_today
                                = ebay_internals.requests_today]_vars

\* the guard has just passed on a later day than the pull that filled the
\* cache: the counter that pull raised is zero again
C32_Witness ==
    /\ pc = "get_seller_list"
    /\ trace.requests = 0
    /\ items # {}
    /\ today > 1
    /\ ebay_internals.got_seller_list_date = Val(today)
    /\ ebay_internals.requests_today = 0

IncrementsWritten ==
    \A r \in RunIds : runs[r].pc \notin {"get_request_counter", "update_request_counter"}

\* C34: with two runs on one cache the increment of requests_today is a
\* read and a later write with no compare-and-swap: the write stores the
\* value its run read plus one whatever the counter holds by then, so the
\* counter never moves past the number of requests sent and an increment
\* the other run wrote in between is lost; a checkpoint write replaces the
\* stored list whoever wrote it
C34_UnsynchronizedWrites ==
    [][\A r \in RunIds :
          /\ RunUpdateRequestCounter(r) =>
                /\ ebay_internals'.requests_today = runs[r].requests + 1
                /\ ebay_internals'.requests_today <= trace.requests
                /\ ebay_internals.requests_today > runs[r].requests =>
                      ebay_internals'.requests_today <= ebay_internals.requests_today
          /\ RunStoreCheckpoint(r) =>
                ebay_internals'.got_item_ids = runs[r].got_item_ids
          /\ (RunAfterLoop(r) /\ runs[r].got_item_ids # <<>>) =>
                ebay_internals'.got_item_ids = <<>>]_vars

\* an increment was lost, more requests were sent than the rate limit
\* allows, and the checkpoint one run had written was replaced by the other
C34_Witness ==
    /\ IncrementsWritten
    /\ ebay_internals.requests_today < trace.requests
    /\ trace.requests > RateLimit
    /\ last.cmd = "db_ebay_store_got_item_ids"
    /\ last.id \notin {0, last.item}
    /\ last.arg # <<>>

(***************************************************************************)
(* Properties of EbayDownloadQueue (SpecDownload)                          *)
(***************************************************************************)
\* C35: for every number of workers, get_item_metadata starts only after
\* get_seller_list has finished, and the list it starts with holds the
\* active ids that pull collected
C35_MetadataAfterSellerList ==
    \A w \in 1..Len(threads) :
        (runs[w].command = "get_item_metadata" /\ runs[w].pc # "try_command") =>
            /\ runs[w].pull \in {"completed", "refused"}
            /\ runs[w].pull = "completed" =>
                  SeqToSet(trace.start) \subseteq SeqToSet(runs[w].works_on)

(***************************************************************************)
(* Properties of the category mapping (SpecCategory), continued            *)
(***************************************************************************)
\* the positions of the table whose wc-name holds 'Uncategorized'
UncategorizedEntries(t) ==
    {k \in 1..Len(t) : \E j \in 1..Len(t[k].wc_name) : t[k].wc_name[j] = "Uncategorized"}

\* C36: with an entry that matches 'Uncategorized' the lookup returns the
\* wc-id of an entry of the table for every source category; with no entry
\* for the category and no entry that matches 'Uncategorized' the fallback
\* calls itself until RecursionError and no category is returned
C36_FallbackUnguarded ==
    (last.cmd = "get_mapped_category_id" /\ category_mapping # None) =>
        LET t == category_mapping[1]
        IN  /\ UncategorizedEntries(t) # {} =>
                  /\ last.raised = "none"
                  /\ last.kind = "int"
                  /\ \E k \in 1..Len(t) : last.id = t[k].wc_id
            /\ (MatchingEntries(t, last.item) = {} /\ UncategorizedEntries(t) = {}) =>
                  /\ last.raised = "RecursionError"
                  /\ last.kind # "int"

\* a category no entry holds was looked up in a table that has entries but
\* none that matches 'Uncategorized'
C36_Witness ==
    /\ last.cmd = "get_mapped_category_id"
    /\ category_mapping # None
    /\ category_mapping[1] # <<>>
    /\ MatchingEntries(category_mapping[1], last.item) = {}
    /\ UncategorizedEntries(category_mapping[1]) = {}
    /\ last.raised = "RecursionError"

(***************************************************************************)
(* Properties of the request counter and of the listing pull (SpecEbay)    *)
(***************************************************************************)
\* C37: in a serial run every marketplace request that is sent, GetSellerList
\* or GetItem, answered or ended by a timeout or a connection error, raises
\* requests_today by one, and the counter never exceeds the rate limit
C37_CounterCountsEveryRequest ==
    [][/\ trace'.requests = trace.requests + 1 =>
             ebay_internals'.requests_today = ebay_internals.requests_today + 1
       /\ ebay_internals'.requests_today <= RateLimit]_vars

\* C38: a listing pull that ended in a read timeout or a connection error
\* has not used up the day's pull: the retry after the timeout, and the next
\* try_command('get_seller_list') after the connection error, pass the
\* same-day guard and go on to the listing request
C38_FailedPullCanBeRepeated ==
    [][/\ GetSellerListTimeout => pc' = "get_seller_list"
       /\ (TryCommandGetSellerList /\ trace.cmd = "get_seller_list"
              /\ trace.outcome = "ConnectionError") => pc' = "get_seller_list"]_vars

\* C39: try_command('get_seller_list') terminates whatever the marketplace
\* answers: pages without items, totals above what the pages deliver and
\* totals that change from page to page included, the loop
\* 'while received < total' is left after finitely many requests
C39_PullTerminates == (pc = "get_seller_list") ~> (pc = "idle")

\* the loop was left at the rate limit after pages that delivered no item
\* of the total they reported
C39_Witness ==
    /\ pc = "idle"
    /\ trace.cmd = "get_seller_list"
    /\ trace.limited
    /\ trace.requests = RateLimit
    /\ items = {}
    /\ pagination.total_items > 0

\* C40: the pending list got_item_ids never holds an item twice, whether
\* its ids were loaded at construction or appended by get_seller_list, and
\* one get_item_metadata call fetches no item twice
C40_PendingIdsDistinct ==
    /\ \A i \in ItemIds : Count(got_item_ids, i) <= 1
    /\ trace.cmd = "get_item_metadata" =>
          \A i \in ItemIds : Count(trace.fetched, i) <= 1

====
